---- MODULE Spec2Model ----
(***************************************************************************)
(* Model of the OCO bracket-order manager (src/simpleoco.py,               *)
(* SimpleOCOManager), of the market data client                            *)
(* (src/topstepapi/marketdata.py, MarketDataClient) and of the market data *)
(* store (src/market_data_db.py, MarketDataDatabase).                      *)
(*                                                                         *)
(* Spec          : the manager's handlers run one at a time, each as one   *)
(*                 action.                                                 *)
(* SpecPayload   : the same, with order updates of any form.               *)
(* SpecShapes    : the same, with order updates in each of the wrappers.   *)
(* SpecStatus    : the same, with status code and fill size independent.   *)
(* SpecCleanup   : the same, with open orders reported to cleanup_orders.  *)
(* SpecConc      : the handlers run on several threads and interleave at   *)
(*                 the blocking broker calls (REST calls and sleeps).      *)
(* SpecStress    : fills, creation and cleanup on different threads.       *)
(* SpecFeed      : the client's subscription calls and the replay on open. *)
(* SpecReconnect : the client's lifecycle calls, the transport's callbacks *)
(*                 and the reconnect loop threads.                         *)
(* SpecLoop      : start and stop, the transport opening and closing, the  *)
(*                 reconnect loop threads.                                 *)
(* SpecCallbacks : the close and error callbacks around start and stop.    *)
(* SpecBackoff   : one reconnect loop that goes on attempting, under each  *)
(*                 configured backoff sequence.                            *)
(* SpecToken     : the reconnect loop with a token provider whose token    *)
(*                 is rotated.                                             *)
(* SpecSession   : subscribe calls with start and stop.                    *)
(* SpecRegister  : handler registrations beside a rebuild that runs        *)
(*                 statement by statement.                                 *)
(* SpecRebuild   : subscription calls beside such a rebuild.               *)
(* SpecStore     : the store's callers, its batch worker and close().      *)
(***************************************************************************)
EXTENDS Integers, Sequences, FiniteSets, TLC

VARIABLES
    oco_pairs,          \* self.oco_pairs: entry order id -> oco_data
    oco_order_lookup,   \* self.oco_order_lookup: str(order id) -> oco_info
    order_events,       \* len(self.order_events)
    next_id,            \* the order id the broker hands out next
    cancels,            \* per entry id: sibling cancel_order calls and successes
    transitions,        \* per entry id: number of writes of a terminal status
    last,               \* the last completed call and its outcome
    pc,                 \* SpecConc: position of each thread
    loc,                \* SpecConc: locals of each thread
    subscribed,         \* self._subscribed_quotes / _trades / _depth
    wire,               \* the commands the last call or callback handed to _send, in order
    mdc,                \* the client's events, thread handle and transport
    loops,              \* the reconnect loop threads and their locals
    md_last,            \* the last callback or call of the client
    db                  \* MarketDataDatabase: queue, worker, tables and close()

oco_vars == <<oco_pairs, oco_order_lookup, order_events, next_id, cancels,
              transitions, last, pc, loc>>
md_vars == <<subscribed, wire, mdc, loops, md_last>>
vars == <<oco_vars, md_vars, db>>

----------------------------------------------------------------------------
(* Bounds *)

MaxOrders == 6      \* order ids the broker hands out
MaxEvents == 3      \* order-update events delivered
MaxLoops == 2       \* reconnect loop threads started
MaxRetries == 1     \* attempts of all running reconnect loops together
MaxAttempts == 5    \* attempts of one reconnect loop, one loop alone
MaxHandlers == 2    \* event handlers registered
MaxRecords == 3     \* records handed to the store
MaxOpen == 2        \* open orders the broker reports to cleanup_orders

(* Program constants *)

stop_distance == 6
target_distance == 6

OrderIds == 1..MaxOrders
Sides == {0, 1}                 \* 0 = Buy, 1 = Sell
Prices == {0, 100}              \* close of the latest bar; 0.0 is falsy
Outcomes == {"true", "false", "raise"}   \* of order.cancel_order

----------------------------------------------------------------------------
(* Python values of an order-update payload *)

PyInt(n) == [t |-> "int", v |-> n]
PyNone == [t |-> "none", v |-> 0]
Absent == [t |-> "absent", v |-> 0]

\* str(x) of an int or of None: one string per value
Str(x) == [t |-> "str", of |-> x]
IdOf(s) == s.of.v

\* dict.get(key, default)
Get(d, key, default) == IF d[key] = Absent THEN default ELSE d[key]

Shapes == {"dict", "list", "data", "list_data"}

EventShapes == {"dict", "list_data"}     \* the shapes the actions deliver

Orders ==
    [id : {PyInt(n) : n \in OrderIds},
     fillVolume : {Absent, PyInt(1)},
     status : {PyInt(3)},
     customTag : {"", "OCO_STOP"}]

\* the dict {data: order} as .get() reads it: it has none of the order's keys
Wrapper == [id |-> Absent, fillVolume |-> Absent, status |-> Absent, customTag |-> ""]

\* the payload as the hub delivers it: a bare object, [object], {data: object}
\* or [{data: object}]; first is the dict itself or the list's first element,
\* data is what its 'data' key holds
Payload(shape, order) ==
    CASE shape = "dict"      -> [outer |-> "dict", len |-> 1, has_data |-> FALSE, first |-> order, data |-> Absent]
      [] shape = "list"      -> [outer |-> "list", len |-> 1, has_data |-> FALSE, first |-> order, data |-> Absent]
      [] shape = "data"      -> [outer |-> "dict", len |-> 1, has_data |-> TRUE,  first |-> Wrapper, data |-> order]
      [] shape = "list_data" -> [outer |-> "list", len |-> 1, has_data |-> TRUE,  first |-> Wrapper, data |-> order]

\* a Python list of the given length, as a value that is not a dict
PyList(n) == [t |-> "list", v |-> n]

\* payloads without an order object: the empty list [] and a list whose first
\* element is a number
MalformedKinds == {"empty_list", "list_scalar"}
MalformedPayload(kind) ==
    CASE kind = "empty_list"  -> [outer |-> "list", len |-> 0, has_data |-> FALSE,
                                  first |-> PyNone, data |-> PyNone]
      [] kind = "list_scalar" -> [outer |-> "list", len |-> 1, has_data |-> FALSE,
                                  first |-> PyInt(1), data |-> PyNone]

\* isinstance(x, dict): an order object carries the order's fields
is_dict(x) == "customTag" \in DOMAIN x

\* variant: the 'data' key is not looked into
order_data_of_unwrapped(data) ==
    IF data.outer = "list" /\ data.len > 0 THEN data.first
    ELSE IF data.outer = "list" THEN PyList(data.len)
    ELSE data.first

\* on_order_update, lines 189-196
order_data_of(data) ==
    IF data.outer = "list" /\ data.len > 0
    THEN IF is_dict(data.first) /\ data.has_data THEN data.data ELSE data.first
    ELSE IF data.outer = "dict" /\ data.has_data THEN data.data
    ELSE IF data.outer = "list" THEN PyList(data.len)
    ELSE data.first

----------------------------------------------------------------------------
(* create_oco_order: prices and sides *)

\* variant: the stop is placed below the market whatever the side
stop_price_of_always_below(side, market_price) == market_price - stop_distance

stop_price_of(side, market_price) ==
    IF side = 0 THEN market_price - stop_distance ELSE market_price + stop_distance

target_price_of(side, market_price) ==
    IF side = 0 THEN market_price + target_distance ELSE market_price - target_distance

bracket_side_of(side) == IF side = 0 THEN 1 ELSE 0

\* `if not market_price`: None and 0.0 are both falsy
price_missing(price) == price.t = "none" \/ price.v = 0

\* the request place_order sends
entry_request(side) ==
    [tag |-> "OCO_ENTRY", type |-> 2, side |-> side, price |-> 0, linked |-> 0]
stop_request(side, market_price, entry_id) ==
    [tag |-> "OCO_STOP", type |-> 4, side |-> bracket_side_of(side),
     price |-> stop_price_of(side, market_price), linked |-> entry_id]
target_request(side, market_price, entry_id) ==
    [tag |-> "OCO_TARGET", type |-> 1, side |-> bracket_side_of(side),
     price |-> target_price_of(side, market_price), linked |-> entry_id]

\* lines 149-159
oco_data_of(side, market_price, entry_id, stop_id, target_id) ==
    [entry_order_id |-> entry_id, stop_order_id |-> stop_id,
     target_order_id |-> target_id, market_price |-> market_price,
     stop_price |-> stop_price_of(side, market_price),
     target_price |-> target_price_of(side, market_price),
     status |-> "active", completed |-> FALSE]

\* line 161
register_pair(pairs, oco_data) ==
    [e \in DOMAIN pairs \cup {oco_data.entry_order_id} |->
        IF e = oco_data.entry_order_id THEN oco_data ELSE pairs[e]]

\* lines 164-173
register_lookup(lookup, entry_id, stop_id, target_id) ==
    LET sk == Str(PyInt(stop_id))
        tk == Str(PyInt(target_id))
    IN [k \in DOMAIN lookup \cup {sk, tk} |->
          IF k = tk THEN [entry_id |-> entry_id, type |-> "target", partner_id |-> sk]
          ELSE IF k = sk THEN [entry_id |-> entry_id, type |-> "stop", partner_id |-> tk]
          ELSE lookup[k]]

----------------------------------------------------------------------------
(* on_order_update / handle_oco_fill_by_lookup *)

tag_has_marker(tag) == tag \in {"OCO_STOP", "OCO_TARGET"}

\* variant: the fill size is not looked at for an order of the lookup index
update_branch_any_fill(order_id, filled_size, custom_tag, lookup) ==
    IF order_id \in DOMAIN lookup THEN "fill"
    ELSE IF filled_size.v > 0 /\ custom_tag # "" /\ tag_has_marker(custom_tag) THEN "tag"
    ELSE "none"

\* lines 218-229: which branch an update takes
update_branch(order_id, filled_size, custom_tag, lookup) ==
    IF filled_size.v > 0 /\ order_id \in DOMAIN lookup THEN "fill"
    ELSE IF order_id \in DOMAIN lookup THEN "status"
    ELSE IF filled_size.v > 0 /\ custom_tag # "" /\ tag_has_marker(custom_tag) THEN "tag"
    ELSE "none"

\* variant: the status check of lines 247-249 left out
oco_fill_proceeds_no_status_check(pairs, oco_info) ==
    oco_info.entry_id \in DOMAIN pairs

\* variant: only one of the two terminal statuses is tested
oco_fill_proceeds_not_target_hit(pairs, oco_info) ==
    /\ oco_info.entry_id \in DOMAIN pairs
    /\ pairs[oco_info.entry_id].status # "target_hit"

\* lines 241-249: the pair exists and is still active
oco_fill_proceeds(pairs, oco_info) ==
    /\ oco_info.entry_id \in DOMAIN pairs
    /\ pairs[oco_info.entry_id].status = "active"

\* variant: the two branches of lines 251 and 259 exchanged
hit_status_swapped(order_type) == IF order_type = "stop" THEN "target_hit" ELSE "stop_hit"

\* lines 251-265: the status a filled leg leads to
hit_status(order_type) == IF order_type = "stop" THEN "stop_hit" ELSE "target_hit"

\* variant: the except branch of line 307 reports success
cancel_order_raise_is_success(outcome) == outcome # "false"

\* cancel_order, lines 298-309: the broker's answer as a boolean
cancel_order(outcome) == outcome = "true"

\* lines 254-256 / 262-264
complete_pair(pairs, oco_info, success) ==
    IF success /\ oco_info.entry_id \in DOMAIN pairs
    THEN [pairs EXCEPT ![oco_info.entry_id].status = hit_status(oco_info.type),
                       ![oco_info.entry_id].completed = TRUE]
    ELSE pairs

count_cancel(c, entry_id, success) ==
    [c EXCEPT ![entry_id].calls = @ + 1,
              ![entry_id].ok = @ + (IF success THEN 1 ELSE 0)]

----------------------------------------------------------------------------
(* cleanup_completed_ocos / reset_oco_state *)

\* variant: only one of the two terminal statuses counts as completed
completed_entries_stop_only(pairs) == {e \in DOMAIN pairs : pairs[e].status = "stop_hit"}

\* variant: the status test of line 417 left out
completed_entries_any(pairs) == DOMAIN pairs

\* lines 415-418
completed_entries(pairs) == {e \in DOMAIN pairs : pairs[e].status # "active"}

\* variant: the pops of lines 422-423 outside the test of line 417
swept_keys_all(pairs) ==
    UNION {{Str(PyInt(pairs[e].stop_order_id)), Str(PyInt(pairs[e].target_order_id))} :
             e \in DOMAIN pairs}

\* lines 420-423
swept_keys(pairs) ==
    UNION {{Str(PyInt(pairs[e].stop_order_id)), Str(PyInt(pairs[e].target_order_id))} :
             e \in completed_entries(pairs)}

\* variant: the sweep empties the table
sweep_pairs_all(pairs) == <<>>

\* lines 425-426
sweep_pairs(pairs) ==
    [e \in DOMAIN pairs \ completed_entries(pairs) |-> pairs[e]]

\* variant: the pops of lines 422-423 left out
sweep_lookup_keeps_all(pairs, lookup) == lookup

\* lines 420-423: the lookup table after the pops
sweep_lookup(pairs, lookup) ==
    [k \in DOMAIN lookup \ swept_keys(pairs) |-> lookup[k]]

----------------------------------------------------------------------------
(* MarketDataClient: values *)

DEFAULT_BACKOFF == <<2, 5, 10, 30>>

\* the reconnect_backoff argument of the constructor: absent, or a sequence
Backoffs == {<<>>, <<3>>, <<4, 1>>}

\* lines 49-51: an absent or empty argument gives the default
configured_backoff(reconnect_backoff) ==
    IF reconnect_backoff # <<>> THEN reconnect_backoff ELSE DEFAULT_BACKOFF

Channels == {"quotes", "trades", "depth"}
Contracts == {"c1", "c2"}

LoopIds == 1..MaxLoops

\* a reconnect loop thread: its position and the locals of _reconnect_loop;
\* delays lists the delays it has slept so far, notified tells whether
\* _is_connected was set while it waits, connection is the local of
\* _build_connection: the registrations of the transport being built
NoLoop == [pc |-> "none", attempt |-> 0, immediate |-> FALSE, delays |-> <<>>,
           notified |-> FALSE, connection |-> {}]
DoneLoop == [NoLoop EXCEPT !.pc = "done"]

\* the last call or callback: transport tells what connection.start() or
\* connection.send() did in it, signal whether the wait of start() saw the open
\* signal, key_before whether the key of a subscribe or unsubscribe call was in
\* its set when the call began, rebuilding whether its send ran while a reconnect
\* loop was between the teardown of the transport and the start of the new one
NoMdCall == [op |-> "init", stop_seen |-> FALSE, spawned_before |-> 0,
             found_running |-> FALSE, ret |-> "-", raised |-> FALSE, transport |-> "-",
             signal |-> FALSE, key_before |-> FALSE, rebuilding |-> FALSE]

\* the wire event names of on_quote_update / on_trade_update / on_depth_update,
\* lines 318-342
event_names(ch) ==
    CASE ch = "quotes" -> <<"GatewayQuote", "GatewayContractQuote", "ContractQuote", "MarketQuote">>
      [] ch = "trades" -> <<"GatewayTrade", "GatewayContractTrade", "ContractTrade", "MarketTrade">>
      [] ch = "depth"  -> <<"GatewayDepth", "GatewayContractMarketDepth", "ContractMarketDepth",
                            "MarketDepth">>

\* the callables a caller registers
Handlers == {"h1", "h2"}

\* the thread inside _register_event: the event names it has still to register
IdleRegistrar == [pc |-> "idle", events |-> <<>>, handler |-> "-"]

\* the tokens the token-resolution function can return, and the token argument
\* of the constructor
Tokens == {"t1", "t2"}
InitialToken == "t0"

\* variant: the provider is asked at construction only
resolve_token_cached(m) == m.token

\* line 60: the provider is called if there is one; token_provider is the value
\* it returns now, "none" without a provider
resolve_token(m) == IF m.token_provider # "none" THEN m.token_provider ELSE m.token

\* MarketDataClient.__init__, lines 20-54: event_handler_specs is the list of
\* registered specs, handlers the (event, handler) pairs registered on the
\* transport that self.connection is, connection_lock the loop thread that holds
\* _connection_lock, hub_token the token in the url of that transport
MdInitWith(reconnect_backoff, token_provider) ==
    /\ subscribed = [ch \in Channels |-> {}]
    /\ wire = <<>>
    /\ mdc = [is_connected |-> FALSE, stop_event |-> FALSE, reconnect_thread |-> 0,
              reconnect_backoff |-> configured_backoff(reconnect_backoff),
              conn |-> "built", stale_close |-> FALSE, caller |-> "idle",
              event_handler_specs |-> <<>>, handlers |-> {}, registrar |-> IdleRegistrar,
              connection_lock |-> 0, token_provider |-> token_provider,
              token |-> IF token_provider # "none" THEN token_provider ELSE InitialToken,
              hub_token |-> IF token_provider # "none" THEN token_provider ELSE InitialToken]
    /\ loops = [l \in LoopIds |-> NoLoop]
    /\ md_last = NoMdCall

\* a client whose provider returns the first token
MdInit(reconnect_backoff) == MdInitWith(reconnect_backoff, "t1")

----------------------------------------------------------------------------
(* MarketDataDatabase: values *)

\* DatabaseConfig.batch_size, line 35: a configuration with small batches
batch_size == 2

DataTypes == {"quote", "trade", "depth"}

\* MarketDataDatabase.__init__, lines 46-56, with _start_batch_worker: worker is
\* the position of the batch worker thread, batches its three local lists,
\* tables the rows committed, closer the position of the thread inside close(),
\* stored the number of records put on the queue
DbInit ==
    db = [batch_queue |-> <<>>, unfinished_tasks |-> 0, batch_worker_running |-> TRUE,
          worker |-> "test", batches |-> [t \in DataTypes |-> <<>>],
          tables |-> [t \in DataTypes |-> {}], connection |-> "open",
          closer |-> "idle", stored |-> 0]

----------------------------------------------------------------------------
(* State after construction, lines 13-25 *)

\* two dispatch threads, the caller's thread and a second caller's thread
Threads == {"d1", "d2", "u", "c"}

NoKey == Str(Absent)
NoLoc == [oco_info |-> [entry_id |-> 0, type |-> "-", partner_id |-> NoKey],
          side |-> 0, market_price |-> 0, entry_order_id |-> 0, stop_order_id |-> 0,
          completed |-> {}]
NoCall == [op |-> "init", ret |-> "-", raised |-> FALSE,
           \* create_oco_order: its inputs, the broker's answers and the requests sent
           side |-> 0, price |-> PyNone, placed |-> <<>>, stage |-> "-",
           requests |-> <<>>, first_id |-> 0,
           \* on_order_update: the event, the broker's answer and the cancel issued
           key |-> NoKey, fill |-> Absent, status |-> Absent, branch |-> "-",
           answer |-> "-", called |-> FALSE, cancel_arg |-> NoKey]

OcoInit ==
    /\ oco_pairs = <<>>
    /\ oco_order_lookup = <<>>
    /\ order_events = 0
    /\ next_id = 1
    /\ cancels = [n \in OrderIds |-> [calls |-> 0, ok |-> 0]]
    /\ transitions = [n \in OrderIds |-> 0]
    /\ last = NoCall
    /\ pc = [t \in Threads |-> "idle"]
    /\ loc = [t \in Threads |-> NoLoc]

Init == OcoInit /\ MdInit(<<>>) /\ DbInit

----------------------------------------------------------------------------
(* create_oco_order, lines 58-184, as one call *)

PriceResults == {PyNone} \cup {PyInt(p) : p \in Prices}   \* get_current_price
PlaceResults == {"id", "none", "raise"}                   \* order.place_order

\* the step at which the call returns: lines 68, 98, 120, 142, 180
create_stage(price, o1, o2, o3) ==
    IF price_missing(price) THEN "price"
    ELSE IF o1 # "id" THEN "entry"
    ELSE IF o2 # "id" THEN "stop"
    ELSE IF o3 # "id" THEN "target"
    ELSE "done"

\* variant: a failed stop placement does not return, the target is still requested
create_attempts_continue(stage) ==
    CASE stage = "price" -> <<>>
      [] stage = "entry" -> <<"OCO_ENTRY">>
      [] OTHER           -> <<"OCO_ENTRY", "OCO_STOP", "OCO_TARGET">>

\* the place_order calls made before the call returns at `stage`
create_attempts(stage) ==
    CASE stage = "price" -> <<>>
      [] stage = "entry" -> <<"OCO_ENTRY">>
      [] stage = "stop"  -> <<"OCO_ENTRY", "OCO_STOP">>
      [] OTHER           -> <<"OCO_ENTRY", "OCO_STOP", "OCO_TARGET">>

\* variant: the check of line 142 left out
create_registers_unchecked(stage) == stage \in {"done", "target"}

\* the pair is registered only when all three orders were placed, lines 142-173
create_registers(stage) == stage = "done"

\* how many of the attempted orders the broker accepted
accepted_count(stage) ==
    IF stage = "done" THEN 3 ELSE IF Len(create_attempts(stage)) = 0 THEN 0
    ELSE Len(create_attempts(stage)) - 1

\* the requests of one call, in the order they are sent
create_requests(side, market_price, entry_id, stage) ==
    LET all == <<entry_request(side), stop_request(side, market_price, entry_id),
                 target_request(side, market_price, entry_id)>>
    IN SubSeq(all, 1, Len(create_attempts(stage)))

create_oco_order(side, price, o1, o2, o3) ==
    LET e == next_id
        stage == create_stage(price, o1, o2, o3)
        mp == price.v
    IN /\ next_id + 2 <= MaxOrders
       /\ next_id' = next_id + accepted_count(stage)
       /\ IF create_registers(stage)
          THEN /\ oco_pairs' = register_pair(oco_pairs, oco_data_of(side, mp, e, e + 1, e + 2))
               /\ oco_order_lookup' = register_lookup(oco_order_lookup, e, e + 1, e + 2)
          ELSE UNCHANGED <<oco_pairs, oco_order_lookup>>
       /\ last' = [NoCall EXCEPT !.op = "create",
                                 !.ret = IF stage = "done" THEN "oco_data" ELSE "None",
                                 !.stage = stage,
                                 !.requests = create_requests(side, mp, e, stage),
                                 !.side = side, !.price = price,
                                 !.placed = <<o1, o2, o3>>, !.first_id = e]
       /\ UNCHANGED <<db, md_vars, order_events, cancels, transitions, pc, loc>>

----------------------------------------------------------------------------
(* on_order_update, lines 186-229, with handle_oco_fill_by_lookup, as one call *)

\* where the call raises: order_data.get on a value that is not a dict (line
\* 198), `filled_size > 0` on None (line 218), or the call of handle_oco_fill,
\* which the class does not define (line 229)
field_raises(order_data) ==
    IF ~is_dict(order_data) THEN "get"
    ELSE IF Get(order_data, "fillVolume", PyInt(0)).t # "int" THEN "compare"
    ELSE "no"

update_raises(order_data, lookup) ==
    IF field_raises(order_data) # "no" THEN field_raises(order_data)
    ELSE IF update_branch(Str(Get(order_data, "id", PyNone)),
                          Get(order_data, "fillVolume", PyInt(0)),
                          order_data.customTag, lookup) = "tag" THEN "tag"
    ELSE "no"

\* the call ends at the raising statement of line 198 or 218; the event is
\* appended at line 213, after the reads of lines 198-202
update_aborts(order_data, raises, outcome) ==
    /\ outcome = "true"
    /\ order_events' = IF raises = "get" THEN order_events ELSE order_events + 1
    /\ last' = [NoCall EXCEPT !.op = "update", !.ret = "raised", !.raised = TRUE,
                              !.stage = raises,
                              !.key = IF raises = "get" THEN NoKey
                                      ELSE Str(Get(order_data, "id", PyNone)),
                              !.fill = IF raises = "get" THEN Absent
                                       ELSE order_data.fillVolume,
                              !.answer = outcome]
    /\ UNCHANGED <<db, md_vars, oco_pairs, oco_order_lookup, next_id, cancels, transitions,
                   pc, loc>>

\* lines 198-229 for an order object with a numeric fill
update_proceeds(order_data, outcome) ==
    LET order_id == Str(Get(order_data, "id", PyNone))
        filled_size == Get(order_data, "fillVolume", PyInt(0))
        custom_tag == order_data.customTag
        branch == update_branch(order_id, filled_size, custom_tag, oco_order_lookup)
        oco_info == oco_order_lookup[order_id]
        called == branch = "fill" /\ oco_fill_proceeds(oco_pairs, oco_info)
        success == cancel_order(outcome)
    IN /\ called \/ outcome = "true"
       /\ order_events' = order_events + 1
       /\ IF called
          THEN /\ oco_pairs' = complete_pair(oco_pairs, oco_info, success)
               /\ cancels' = count_cancel(cancels, oco_info.entry_id, success)
               /\ transitions' = IF success
                                 THEN [transitions EXCEPT ![oco_info.entry_id] = @ + 1]
                                 ELSE transitions
          ELSE UNCHANGED <<oco_pairs, cancels, transitions>>
       \* the tag fallback calls self.handle_oco_fill, which the class does not define
       /\ last' = [NoCall EXCEPT !.op = "update",
                                 !.ret = IF branch = "tag" THEN "raised" ELSE "None",
                                 !.raised = (branch = "tag"),
                                 !.stage = update_raises(order_data, oco_order_lookup),
                                 !.key = order_id, !.fill = order_data.fillVolume,
                                 !.status = order_data.status,
                                 !.branch = branch, !.answer = outcome,
                                 !.called = called,
                                 !.cancel_arg = IF called THEN oco_info.partner_id ELSE NoKey]
       /\ UNCHANGED <<db, md_vars, oco_order_lookup, next_id, pc, loc>>

on_order_update(data, outcome) ==
    LET order_data == order_data_of(data)
    IN /\ order_events < MaxEvents
       /\ IF field_raises(order_data) # "no"
          THEN update_aborts(order_data, field_raises(order_data), outcome)
          ELSE update_proceeds(order_data, outcome)

----------------------------------------------------------------------------
(* cleanup_orders, lines 267-296, and reset_oco_state, lines 402-411 *)

\* an open order as search_open_orders reports it: customTag is a string or
\* JSON null, answer is what client.order.cancel_order does when called for it
NullTag == "null"
OpenTags == {"OCO_STOP", "", NullTag}
CancelAnswers == {"returns", "raises"}

\* line 278: 'OCO_' in custom_tag
tag_is_oco(tag) == tag \in {"OCO_ENTRY", "OCO_STOP", "OCO_TARGET"}

\* variant: an exception of a cancel leaves the for loop
loop_goes_on_unless_raised(answer) == answer = "returns"

\* lines 279-285: the cancel is inside its own try, the loop goes on either way
loop_goes_on(answer) == TRUE

\* lines 274-285: the order ids cancel_order is called with, from the i-th open
\* order on; 'OCO_' in None raises TypeError, which line 292 catches outside the
\* for loop
RECURSIVE cancel_requests(_, _)
cancel_requests(open_orders, i) ==
    IF i > Len(open_orders) \/ open_orders[i].customTag = NullTag THEN <<>>
    ELSE IF ~tag_is_oco(open_orders[i].customTag) THEN cancel_requests(open_orders, i + 1)
    ELSE <<open_orders[i].orderId>> \o
         (IF loop_goes_on(open_orders[i].answer) THEN cancel_requests(open_orders, i + 1)
          ELSE <<>>)

\* search_open_orders and the broker cancels, lines 270-293, leave the manager's
\* state alone whether they raise or not; the sweep of line 296 always runs
cleanup_orders(search_raises, open_orders) ==
    /\ last' = [NoCall EXCEPT !.op = "cleanup",
                              !.stage = IF search_raises THEN "search_raised" ELSE "searched",
                              !.placed = open_orders,
                              !.requests = IF search_raises THEN <<>>
                                           ELSE cancel_requests(open_orders, 1)]
    /\ oco_pairs' = sweep_pairs(oco_pairs)
    /\ oco_order_lookup' = sweep_lookup(oco_pairs, oco_order_lookup)
    /\ UNCHANGED <<db, md_vars, order_events, next_id, cancels, transitions, pc, loc>>

reset_oco_state ==
    /\ oco_pairs' = <<>>
    /\ oco_order_lookup' = <<>>
    /\ last' = [NoCall EXCEPT !.op = "reset"]
    /\ UNCHANGED <<db, md_vars, order_events, next_id, cancels, transitions, pc, loc>>

----------------------------------------------------------------------------

\* the results after the failing one are never asked for
Canonical(price, o1, o2, o3) ==
    /\ price_missing(price) => o1 = "id"
    /\ o1 # "id" => o2 = "id"
    /\ o2 # "id" => o3 = "id"

Create ==
    \E side \in Sides, price \in PriceResults, o1, o2, o3 \in PlaceResults :
        /\ Canonical(price, o1, o2, o3)
        /\ create_oco_order(side, price, o1, o2, o3)

\* a set whose three orders the broker accepts
CreatePlaced ==
    \E side \in Sides : create_oco_order(side, PyInt(100), "id", "id", "id")

Update ==
    \E shape \in EventShapes, order \in Orders, outcome \in Outcomes :
        /\ order.id.v <= next_id      \* an order of this manager or a foreign one
        /\ on_order_update(Payload(shape, order), outcome)

\* the broker has no open order left, or the query fails
Cleanup ==
    \E search_raises \in BOOLEAN : cleanup_orders(search_raises, <<>>)

Reset == reset_oco_state

Next == Create \/ Update \/ Cleanup \/ Reset

Spec == Init /\ [][Next]_vars

----------------------------------------------------------------------------
(* The same manager under order updates of any form: fields missing or null,  *)
(* an empty list, a list of something that is not an order object.            *)

PartialOrders ==
    [id : {Absent} \cup {PyInt(n) : n \in OrderIds},
     fillVolume : {Absent, PyNone, PyInt(1)},
     status : {Absent},
     customTag : {""}]

UpdatePartial ==
    \E shape \in EventShapes, order \in PartialOrders, outcome \in Outcomes :
        /\ order.id.v <= next_id
        /\ on_order_update(Payload(shape, order), outcome)

UpdateMalformed ==
    \E kind \in MalformedKinds : on_order_update(MalformedPayload(kind), "true")

NextPayload == Create \/ UpdatePartial \/ UpdateMalformed

SpecPayload == Init /\ [][NextPayload]_vars

----------------------------------------------------------------------------
(* The same manager when an order update arrives in any of the four wrappers. *)

UpdateShapes ==
    \E shape \in Shapes, order \in Orders, outcome \in Outcomes :
        /\ order.id.v <= next_id
        /\ on_order_update(Payload(shape, order), outcome)

NextShapes == CreatePlaced \/ UpdateShapes

SpecShapes == Init /\ [][NextShapes]_vars

----------------------------------------------------------------------------
(* The same manager under order updates whose status code and fill size vary  *)
(* independently: PartiallyFilled or Cancelled, with or without a fill.       *)

StatusOrders ==
    [id : {PyInt(n) : n \in OrderIds},
     fillVolume : {PyInt(0), PyInt(1)},
     status : {PyInt(4), PyInt(5)},
     customTag : {""}]

UpdateStatus ==
    \E order \in StatusOrders, outcome \in Outcomes :
        /\ order.id.v <= next_id
        /\ on_order_update(Payload("dict", order), outcome)

NextStatus == Create \/ UpdateStatus

SpecStatus == Init /\ [][NextStatus]_vars

----------------------------------------------------------------------------
(* The same manager when the broker reports open orders to cleanup_orders:    *)
(* the orders from id 2 on, each with a tag and an answer to its cancel.      *)

\* a tag and an answer; an order that is not tagged is never cancelled, so its
\* answer is not varied
OpenChoices ==
    {c \in [customTag : OpenTags, answer : CancelAnswers] :
        ~tag_is_oco(c.customTag) => c.answer = "returns"}

\* the loop reads nothing after an order whose tag is null, so such an order is
\* drawn in the last place only
CleanupOpen ==
    \E k \in 0..MaxOpen, search_raises \in BOOLEAN :
        \E choice \in [1..k -> OpenChoices] :
            /\ search_raises => k = 0
            /\ \A i \in 1..(k - 1) : choice[i].customTag # NullTag
            /\ cleanup_orders(search_raises,
                              [i \in 1..k |-> [orderId |-> i + 1,
                                               customTag |-> choice[i].customTag,
                                               answer |-> choice[i].answer]])

NextCleanup == CreatePlaced \/ UpdateStatus \/ CleanupOpen

SpecCleanup == Init /\ [][NextCleanup]_vars

----------------------------------------------------------------------------
(* The handlers on several threads.  The hub's callback threads run            *)
(* on_order_update, the caller's thread runs create_oco_order, cleanup_orders  *)
(* and reset_oco_state.  The class takes no lock; a handler is split where it  *)
(* waits for the broker (a REST call or a sleep).                              *)

Dispatch == {"d1", "d2"}
Caller == "u"

\* on_order_update, lines 186-249: up to the call of cancel_order
update_begin(t, data) ==
    LET order_data == order_data_of(data)
        order_id == Str(Get(order_data, "id", PyNone))
        filled_size == Get(order_data, "fillVolume", PyInt(0))
        branch == update_branch(order_id, filled_size, order_data.customTag, oco_order_lookup)
        oco_info == oco_order_lookup[order_id]
    IN /\ pc[t] = "idle"
       /\ order_events < MaxEvents
       /\ order_events' = order_events + 1
       /\ IF branch = "fill" /\ oco_fill_proceeds(oco_pairs, oco_info)
          THEN /\ pc' = [pc EXCEPT ![t] = "cancel"]
               /\ loc' = [loc EXCEPT ![t].oco_info = oco_info]
          ELSE UNCHANGED <<pc, loc>>
       /\ UNCHANGED <<db, md_vars, oco_pairs, oco_order_lookup, next_id, cancels, transitions, last>>

\* lines 254-256 / 262-264: cancel_order returns and the status is written to the
\* oco_data read at line 245 (a set swept meanwhile is no longer in the table)
update_cancel(t, outcome) ==
    LET success == cancel_order(outcome)
    IN /\ pc[t] = "cancel"
       /\ oco_pairs' = complete_pair(oco_pairs, loc[t].oco_info, success)
       /\ cancels' = count_cancel(cancels, loc[t].oco_info.entry_id, success)
       /\ transitions' = IF success
                         THEN [transitions EXCEPT ![loc[t].oco_info.entry_id] = @ + 1]
                         ELSE transitions
       /\ pc' = [pc EXCEPT ![t] = "idle"]
       /\ loc' = [loc EXCEPT ![t] = NoLoc]
       /\ UNCHANGED <<db, md_vars, oco_order_lookup, order_events, next_id, last>>

\* lines 66-84: the reference price
create_price(side, price) ==
    /\ pc[Caller] = "idle"
    /\ next_id + 2 <= MaxOrders
    /\ IF price_missing(price)
       THEN UNCHANGED <<pc, loc>>
       ELSE /\ pc' = [pc EXCEPT ![Caller] = "entry"]
            /\ loc' = [loc EXCEPT ![Caller].side = side, ![Caller].market_price = price.v]
    /\ UNCHANGED <<db, md_vars, oco_pairs, oco_order_lookup, order_events, next_id, cancels,
                   transitions, last>>

\* lines 86-103: the entry order
create_entry(o1) ==
    /\ pc[Caller] = "entry"
    /\ IF o1 = "id"
       THEN /\ next_id' = next_id + 1
            /\ pc' = [pc EXCEPT ![Caller] = "stop"]
            /\ loc' = [loc EXCEPT ![Caller].entry_order_id = next_id]
       ELSE /\ pc' = [pc EXCEPT ![Caller] = "idle"]
            /\ loc' = [loc EXCEPT ![Caller] = NoLoc]
            /\ UNCHANGED next_id
    /\ UNCHANGED <<db, md_vars, oco_pairs, oco_order_lookup, order_events, cancels, transitions, last>>

\* lines 105-125: the stop leg
create_stop(o2) ==
    /\ pc[Caller] = "stop"
    /\ IF o2 = "id"
       THEN /\ next_id' = next_id + 1
            /\ pc' = [pc EXCEPT ![Caller] = "target"]
            /\ loc' = [loc EXCEPT ![Caller].stop_order_id = next_id]
       ELSE /\ pc' = [pc EXCEPT ![Caller] = "idle"]
            /\ loc' = [loc EXCEPT ![Caller] = NoLoc]
            /\ UNCHANGED next_id
    /\ UNCHANGED <<db, md_vars, oco_pairs, oco_order_lookup, order_events, cancels, transitions, last>>

\* lines 127-180: the target leg and the registration
create_target(o3) ==
    LET l == loc[Caller]
    IN /\ pc[Caller] = "target"
       /\ IF o3 = "id"
          THEN /\ next_id' = next_id + 1
               /\ oco_pairs' = register_pair(oco_pairs,
                                   oco_data_of(l.side, l.market_price, l.entry_order_id,
                                               l.stop_order_id, next_id))
               /\ oco_order_lookup' = register_lookup(oco_order_lookup, l.entry_order_id,
                                                      l.stop_order_id, next_id)
          ELSE UNCHANGED <<next_id, oco_pairs, oco_order_lookup>>
       /\ pc' = [pc EXCEPT ![Caller] = "idle"]
       /\ loc' = [loc EXCEPT ![Caller] = NoLoc]
       /\ UNCHANGED <<db, md_vars, order_events, cancels, transitions, last>>

\* cleanup_orders, lines 270-293: the search and the broker cancels
cleanup_search ==
    /\ pc[Caller] = "idle"
    /\ pc' = [pc EXCEPT ![Caller] = "sweep"]
    /\ UNCHANGED <<db, md_vars, oco_pairs, oco_order_lookup, order_events, next_id, cancels,
                   transitions, last, loc>>

\* line 296: cleanup_completed_ocos
cleanup_sweep ==
    /\ pc[Caller] = "sweep"
    /\ oco_pairs' = sweep_pairs(oco_pairs)
    /\ oco_order_lookup' = sweep_lookup(oco_pairs, oco_order_lookup)
    /\ pc' = [pc EXCEPT ![Caller] = "idle"]
    /\ UNCHANGED <<db, md_vars, order_events, next_id, cancels, transitions, last, loc>>

\* reset_oco_state, lines 402-411
reset_by_caller ==
    /\ pc[Caller] = "idle"
    /\ oco_pairs' = <<>>
    /\ oco_order_lookup' = <<>>
    /\ UNCHANGED <<db, md_vars, order_events, next_id, cancels, transitions, last, pc, loc>>

UpdateBegin ==
    \E t \in Dispatch, shape \in EventShapes, order \in Orders :
        /\ order.id.v <= next_id
        /\ update_begin(t, Payload(shape, order))

UpdateCancel == \E t \in Dispatch, outcome \in Outcomes : update_cancel(t, outcome)

CreatePrice == \E side \in Sides, price \in PriceResults : create_price(side, price)
CreateEntry == \E o1 \in PlaceResults : create_entry(o1)
CreateStop == \E o2 \in PlaceResults : create_stop(o2)
CreateTarget == \E o3 \in PlaceResults : create_target(o3)

NextConc ==
    \/ UpdateBegin \/ UpdateCancel
    \/ CreatePrice \/ CreateEntry \/ CreateStop \/ CreateTarget
    \/ cleanup_search \/ cleanup_sweep \/ reset_by_caller

SpecConc == Init /\ [][NextConc]_vars

----------------------------------------------------------------------------
(* The stress arrangement: the dispatch threads deliver fills, one thread     *)
(* creates sets and another one runs cleanup_orders, all at the same time.    *)
(* cleanup_completed_ocos is split between its two loops.                     *)

Cleaner == "c"

\* cleanup_orders, lines 270-293: the search and the broker cancels
cleanup_begin(t) ==
    /\ pc[t] = "idle"
    /\ pc' = [pc EXCEPT ![t] = "scan"]
    /\ UNCHANGED <<db, md_vars, oco_pairs, oco_order_lookup, order_events, next_id, cancels,
                   transitions, last, loc>>

\* cleanup_completed_ocos, lines 415-423: the completed entries are collected and
\* their lookup keys popped
cleanup_scan(t) ==
    /\ pc[t] = "scan"
    /\ loc' = [loc EXCEPT ![t].completed = completed_entries(oco_pairs)]
    /\ oco_order_lookup' = sweep_lookup(oco_pairs, oco_order_lookup)
    /\ pc' = [pc EXCEPT ![t] = "delete"]
    /\ UNCHANGED <<db, md_vars, oco_pairs, order_events, next_id, cancels, transitions, last>>

\* lines 425-426: the collected entries are deleted
cleanup_delete(t) ==
    /\ pc[t] = "delete"
    /\ oco_pairs' = [e \in DOMAIN oco_pairs \ loc[t].completed |-> oco_pairs[e]]
    /\ pc' = [pc EXCEPT ![t] = "idle"]
    /\ loc' = [loc EXCEPT ![t] = NoLoc]
    /\ UNCHANGED <<db, md_vars, oco_order_lookup, order_events, next_id, cancels, transitions, last>>

CleanupBegin == cleanup_begin(Cleaner)
CleanupScan == cleanup_scan(Cleaner)
CleanupDelete == cleanup_delete(Cleaner)

NextStress ==
    \/ UpdateBegin \/ UpdateCancel
    \/ CreatePrice \/ CreateEntry \/ CreateStop \/ CreateTarget
    \/ CleanupBegin \/ CleanupScan \/ CleanupDelete

SpecStress == Init /\ [][NextStress]_vars

----------------------------------------------------------------------------
(* MarketDataClient: subscriptions and the replay, lines 224-306 *)

subscribe_method(ch) ==
    CASE ch = "quotes" -> "SubscribeContractQuotes"
      [] ch = "trades" -> "SubscribeContractTrades"
      [] ch = "depth"  -> "SubscribeContractMarketDepth"

\* list(a_set): the elements in some order
ListsOf(S) ==
    {q \in [1..Cardinality(S) -> S] : \A i, j \in 1..Cardinality(S) : q[i] = q[j] => i = j}

\* one _send per element, in the order of the list
sends_of(ch, list) == [i \in 1..Len(list) |-> [method |-> subscribe_method(ch), arg |-> list[i]]]

\* variant: the depth loop before the trades loop
resubscribe_all_depth_first(quotes, trades, depth) ==
    sends_of("quotes", quotes) \o sends_of("depth", depth) \o sends_of("trades", trades)

\* _resubscribe_all, lines 224-230
resubscribe_all(quotes, trades, depth) ==
    sends_of("quotes", quotes) \o sends_of("trades", trades) \o sends_of("depth", depth)

unsubscribe_method(ch) ==
    CASE ch = "quotes" -> "UnsubscribeContractQuotes"
      [] ch = "trades" -> "UnsubscribeContractTrades"
      [] ch = "depth"  -> "UnsubscribeContractMarketDepth"

\* what connection.send does: it returns, or it raises because the transport is
\* not running, or it raises for another reason
SendOutcomes == {"sent", "not_running", "send_error"}

\* variant: the exception of connection.send is passed on
send_passing_on(outcome) ==
    [ret |-> IF outcome = "sent" THEN "True" ELSE "-", raised |-> outcome # "sent"]

\* _send, lines 232-238: every Exception of connection.send is caught
send(outcome) ==
    [ret |-> IF outcome = "sent" THEN "True" ELSE "False", raised |-> FALSE]

\* a reconnect loop is between the teardown of the transport and the start of
\* the new one
Rebuilding(ls) == \E l \in LoopIds : ls[l].pc \in {"torn", "built", "assigned"}

\* what a subscribe or unsubscribe call leaves in md_last
send_record(op, outcome, key_before) ==
    [NoMdCall EXCEPT !.op = op, !.ret = send(outcome).ret, !.raised = send(outcome).raised,
                     !.transport = outcome, !.key_before = key_before,
                     !.rebuilding = Rebuilding(loops)]

\* _register_event, lines 312-313: the spec is appended to the list
register_begin(ch, handler) ==
    /\ mdc.registrar.pc = "idle"
    /\ mdc' = [mdc EXCEPT
                 !.event_handler_specs = Append(@, [events |-> event_names(ch), handler |-> handler]),
                 !.registrar = [pc |-> "on", events |-> event_names(ch), handler |-> handler]]
    /\ UNCHANGED <<db, oco_vars, subscribed, wire, loops, md_last>>

\* lines 314-316: one connection.on, on the transport that self.connection is
\* when the statement runs; the thread returns after the last one
register_on ==
    /\ mdc.registrar.pc = "on"
    /\ mdc' = [mdc EXCEPT
                 !.handlers = @ \cup {<<Head(mdc.registrar.events), mdc.registrar.handler>>},
                 !.registrar = IF Len(mdc.registrar.events) = 1 THEN IdleRegistrar
                               ELSE [@ EXCEPT !.events = Tail(@)]]
    /\ UNCHANGED <<db, oco_vars, subscribed, wire, loops, md_last>>

\* subscribe_contract_quotes / _trades / _market_depth, lines 243-262: the key
\* is added when _send reports success
subscribe_contract(ch, contract_id, outcome) ==
    /\ wire' = <<[method |-> subscribe_method(ch), arg |-> contract_id]>>
    /\ subscribed' = IF send(outcome).ret = "True"
                     THEN [subscribed EXCEPT ![ch] = @ \cup {contract_id}]
                     ELSE subscribed
    /\ md_last' = send_record("subscribe", outcome, contract_id \in subscribed[ch])
    /\ UNCHANGED <<db, oco_vars, mdc, loops>>

\* lines 275-276: the key is discarded when _send reports success
unsubscribe_discards(ok) == ok

\* unsubscribe_contract_quotes / _trades / _market_depth, lines 273-289
unsubscribe_contract(ch, contract_id, outcome) ==
    /\ wire' = <<[method |-> unsubscribe_method(ch), arg |-> contract_id]>>
    /\ subscribed' = IF unsubscribe_discards(send(outcome).ret = "True")
                     THEN [subscribed EXCEPT ![ch] = @ \ {contract_id}]
                     ELSE subscribed
    /\ md_last' = send_record("unsubscribe", outcome, contract_id \in subscribed[ch])
    /\ UNCHANGED <<db, oco_vars, mdc, loops>>

----------------------------------------------------------------------------
(* MarketDataClient: scheduling of the reconnect loop, lines 166-177 *)

is_alive(ls, thread) == thread # 0 /\ ls[thread].pc \notin {"none", "done"}

Spawned(ls) == Cardinality({l \in LoopIds : ls[l].pc # "none"})

\* variant: the stop flag is not looked at
schedule_spawns_ignoring_stop(stop_set, running) == ~running

\* lines 167-171: a thread is started unless a stop is requested or the thread
\* of the handle is alive
schedule_spawns(stop_set, running) == ~stop_set /\ ~running

\* the thread a start would create: the first one not used yet
FreeLoop(ls) == CHOOSE l \in LoopIds : ls[l].pc = "none" /\ \A k \in 1..(l - 1) : ls[k].pc # "none"

\* _schedule_reconnect applied to the client state m and the threads ls
schedule_reconnect(m, ls, immediate) ==
    IF schedule_spawns(m.stop_event, is_alive(ls, m.reconnect_thread))
    THEN [mdc |-> [m EXCEPT !.reconnect_thread = FreeLoop(ls)],
          loops |-> [ls EXCEPT ![FreeLoop(ls)] =
                        [NoLoop EXCEPT !.pc = "top", !.immediate = immediate]]]
    ELSE [mdc |-> m, loops |-> ls]

\* the model has a thread left for the start the call would make
CanSchedule(m, ls) ==
    schedule_spawns(m.stop_event, is_alive(ls, m.reconnect_thread)) =>
        \E l \in LoopIds : ls[l].pc = "none"

\* the waiters of _is_connected.wait that have its signal: reconnect loops, and
\* the caller of start() as 0
Signalled(m, ls) ==
    {l \in LoopIds : ls[l].pc = "wait" /\ ls[l].notified}
        \cup (IF m.caller = "start_notified" THEN {0} ELSE {})

\* _is_connected.clear(): the waiters in woken were inside wait() when the flag
\* was set and return true; the others have not entered wait() yet and will
\* find the flag clear
clear_connected(m, ls, woken) ==
    [mdc |-> [m EXCEPT !.is_connected = FALSE,
                       !.caller = IF @ = "start_notified" /\ 0 \notin woken
                                  THEN "start_wait" ELSE @],
     loops |-> [l \in LoopIds |->
                   IF ls[l].pc = "wait" /\ ls[l].notified /\ l \notin woken
                   THEN [ls[l] EXCEPT !.notified = FALSE] ELSE ls[l]]]

\* what a callback leaves in md_last
callback_record(op, m, ls) ==
    [NoMdCall EXCEPT !.op = op, !.stop_seen = m.stop_event,
                     !.spawned_before = Spawned(ls),
                     !.found_running = is_alive(ls, m.reconnect_thread)]

----------------------------------------------------------------------------
(* MarketDataClient: the callbacks, lines 127-161.  m is the client state     *)
(* with the transport's own change applied.                                   *)

\* _on_open: the event is set (its waiters are notified), the handle is
\* dropped, the subscriptions are replayed
on_open(m, quotes, trades, depth) ==
    /\ mdc' = [m EXCEPT !.is_connected = TRUE, !.reconnect_thread = 0,
                        !.caller = IF @ = "start_wait" THEN "start_notified" ELSE @]
    /\ loops' = [l \in LoopIds |->
                    IF loops[l].pc = "wait" THEN [loops[l] EXCEPT !.notified = TRUE]
                    ELSE loops[l]]
    /\ wire' = resubscribe_all(quotes, trades, depth)
    /\ md_last' = [NoMdCall EXCEPT !.op = "open"]
    /\ UNCHANGED <<db, oco_vars, subscribed>>

\* _on_close
on_close(m) ==
    /\ CanSchedule(m, loops)
    /\ \E woken \in SUBSET Signalled(m, loops) :
          LET cleared == clear_connected(m, loops, woken)
              after == schedule_reconnect(cleared.mdc, cleared.loops, FALSE)
          IN /\ mdc' = after.mdc
             /\ loops' = after.loops
    /\ md_last' = callback_record("close", m, loops)
    /\ wire' = <<>>
    /\ UNCHANGED <<db, oco_vars, subscribed>>

\* _on_error
on_error(m) ==
    LET after == schedule_reconnect(m, loops, FALSE)
    IN /\ CanSchedule(m, loops)
       /\ mdc' = after.mdc
       /\ loops' = after.loops
       /\ md_last' = callback_record("error", m, loops)
       /\ wire' = <<>>
       /\ UNCHANGED <<db, oco_vars, subscribed>>

----------------------------------------------------------------------------
(* MarketDataClient: start, stop, force_reconnect, lines 95-125 and 217-219 *)

\* start up to connection.start(), lines 95-107
md_start(raises) ==
    /\ mdc.caller = "idle"
    /\ mdc.connection_lock = 0
    /\ mdc.conn \in {"built", "stopped"}
    /\ \E woken \in SUBSET Signalled(mdc, loops) :
          LET cleared == clear_connected([mdc EXCEPT !.stop_event = FALSE], loops, woken)
              after == schedule_reconnect(cleared.mdc, cleared.loops, TRUE)
          IN IF raises
             THEN /\ CanSchedule(cleared.mdc, cleared.loops)
                  /\ mdc' = after.mdc
                  /\ loops' = after.loops
                  /\ md_last' = [callback_record("start", cleared.mdc, cleared.loops) EXCEPT
                                     !.ret = "False", !.transport = "raises"]
             ELSE /\ mdc' = [cleared.mdc EXCEPT !.conn = "connecting", !.caller = "start_wait"]
                  /\ loops' = cleared.loops
                  /\ md_last' = [NoMdCall EXCEPT !.op = "start", !.transport = "started"]
    /\ wire' = <<>>
    /\ UNCHANGED <<db, oco_vars, subscribed>>

\* variant: the result of the wait is not looked at
start_returns_true(signal) == "True"

\* lines 108-112: the result of _is_connected.wait(timeout=5) decides
start_returns(signal) == IF signal THEN "True" ELSE "False"

\* start, lines 108-112: the wait of at most 5 s ends
md_start_wait ==
    /\ mdc.caller \in {"start_wait", "start_notified"}
    /\ mdc' = [mdc EXCEPT !.caller = "idle"]
    /\ md_last' = [NoMdCall EXCEPT !.op = "start", !.transport = "started",
                       !.signal = (mdc.caller = "start_notified"),
                       !.ret = start_returns(mdc.caller = "start_notified")]
    /\ wire' = <<>>
    /\ UNCHANGED <<db, oco_vars, subscribed, loops>>

\* variant: a stop that finds the stop flag set clears it
stopped_client_toggling(m) ==
    [m EXCEPT !.stop_event = ~@, !.is_connected = FALSE, !.reconnect_thread = 0,
              !.conn = IF @ \in {"connecting", "open"} THEN "stopping" ELSE @]

\* lines 116-125 and 211-213: the fields of the client after stop(); a transport
\* that was started is stopped and delivers its close later
stopped_client(m) ==
    [m EXCEPT !.stop_event = TRUE, !.is_connected = FALSE, !.reconnect_thread = 0,
              !.conn = IF @ \in {"connecting", "open"} THEN "stopping" ELSE @]

\* stop, lines 114-125, with _join_reconnect_thread, lines 210-215: the join
\* waits at most 1 s, the thread may outlive it
md_stop ==
    /\ mdc.caller = "idle"
    /\ mdc.connection_lock = 0
    /\ \E woken \in SUBSET Signalled(mdc, loops) :
          LET cleared == clear_connected(mdc, loops, woken)
          IN /\ mdc' = stopped_client(cleared.mdc)
             /\ loops' = cleared.loops
    /\ md_last' = [NoMdCall EXCEPT !.op = "stop", !.stop_seen = mdc.stop_event]
    /\ wire' = <<>>
    /\ UNCHANGED <<db, oco_vars, subscribed>>

force_reconnect ==
    LET after == schedule_reconnect(mdc, loops, TRUE)
    IN /\ mdc.caller = "idle"
       /\ CanSchedule(mdc, loops)
       /\ mdc' = after.mdc
       /\ loops' = after.loops
       /\ md_last' = [NoMdCall EXCEPT !.op = "force"]
       /\ wire' = <<>>
       /\ UNCHANGED <<db, oco_vars, subscribed>>

----------------------------------------------------------------------------
(* MarketDataClient: _reconnect_loop, lines 179-208, one action per stretch   *)
(* between two blocking calls                                                 *)

\* line 181
backoff_of(reconnect_backoff, immediate) ==
    IF immediate THEN <<0>> \o reconnect_backoff ELSE reconnect_backoff

\* variant: the index wraps around instead of staying at the last element
delay_of_wrapping(backoff, attempt) == backoff[(attempt % Len(backoff)) + 1]

\* line 183: backoff[min(attempt, len(backoff) - 1)], indices from 0
delay_of(backoff, attempt) ==
    backoff[(IF attempt < Len(backoff) - 1 THEN attempt ELSE Len(backoff) - 1) + 1]

\* variant: the loop gives up after its first attempt
loop_continues_one_attempt(stop_set, attempt) == ~stop_set /\ attempt < 1

\* line 182: while not self._stop_event.is_set()
loop_continues(stop_set, attempt) == ~stop_set

\* lines 182-188: the test of the while, the delay and the sleep
loop_top(l) ==
    /\ loops[l].pc = "top"
    /\ IF loop_continues(mdc.stop_event, loops[l].attempt)
       THEN loops' = [loops EXCEPT
                           ![l].pc = "slept",
                           ![l].delays = Append(@, delay_of(backoff_of(mdc.reconnect_backoff,
                                                                       loops[l].immediate),
                                                            loops[l].attempt))]
       ELSE loops' = [loops EXCEPT ![l] = DoneLoop]
    /\ UNCHANGED <<db, oco_vars, subscribed, wire, mdc, md_last>>

\* lines 189-191: after the sleep
loop_wake(l) ==
    /\ loops[l].pc = "slept"
    /\ loops' = IF mdc.stop_event THEN [loops EXCEPT ![l] = DoneLoop]
                ELSE [loops EXCEPT ![l].pc = "attempt", ![l].attempt = @ + 1]
    /\ UNCHANGED <<db, oco_vars, subscribed, wire, mdc, md_last>>

\* what an attempt meets: the token resolution of _build_connection raises or
\* returns no token, connection.start() raises, or the transport is started
AttemptOutcomes == {"started", "token_raises", "no_token", "start_raises"}

\* lines 60-62: _build_connection raises before it has built anything
build_raises(outcome) == outcome \in {"token_raises", "no_token"}

\* variant: an exception of _build_connection ends the loop
pc_after_attempt_propagating(outcome) ==
    IF outcome = "started" THEN "wait" ELSE IF build_raises(outcome) THEN "done" ELSE "top"

\* lines 202-207: a started transport is waited for; an exception is caught
\* inside the while and the loop goes on
pc_after_attempt(outcome) == IF outcome = "started" THEN "wait" ELSE "top"

\* lines 88-91: the registrations _build_connection makes on a new transport
registrations(specs) ==
    UNION {{<<specs[i].events[j], specs[i].handler>> : j \in 1..Len(specs[i].events)} :
              i \in 1..Len(specs)}

\* lines 192-202 and 206-207: teardown, rebuild and start under the connection
\* lock; an exception is logged and the loop goes on.  A transport that was
\* started and is stopped here delivers its close later.
loop_attempt(l, outcome) ==
    /\ loops[l].pc = "attempt"
    /\ mdc.connection_lock = 0
    /\ build_raises(outcome) => mdc.token_provider # "none"
    /\ \E woken \in SUBSET Signalled(mdc, loops) :
          LET cleared == clear_connected(mdc, loops, woken)
          IN /\ mdc' = [cleared.mdc EXCEPT
                          !.handlers = IF build_raises(outcome) THEN @
                                       ELSE registrations(mdc.event_handler_specs),
                          !.token = IF build_raises(outcome) THEN @ ELSE resolve_token(mdc),
                          !.hub_token = IF build_raises(outcome) THEN @
                                        ELSE resolve_token(mdc),
                          !.stale_close = @ \/ mdc.conn \in {"connecting", "open", "stopping"},
                          !.conn = CASE build_raises(outcome) -> "stopped"
                                     [] outcome = "start_raises" -> "built"
                                     [] OTHER -> "connecting"]
             /\ loops' = [cleared.loops EXCEPT
                             ![l].pc = pc_after_attempt(outcome),
                             ![l].notified = FALSE]
    /\ UNCHANGED <<db, oco_vars, subscribed, wire, md_last>>

\* the same attempt, one action per statement that another thread can see.
\* Lines 193-199: the lock is taken, the flag cleared, the transport stopped
attempt_teardown(l) ==
    /\ loops[l].pc = "attempt"
    /\ mdc.connection_lock = 0
    /\ \E woken \in SUBSET Signalled(mdc, loops) :
          LET cleared == clear_connected(mdc, loops, woken)
          IN /\ mdc' = [cleared.mdc EXCEPT
                          !.connection_lock = l,
                          !.stale_close = @ \/ mdc.conn \in {"connecting", "open", "stopping"},
                          !.conn = "stopped"]
             /\ loops' = [cleared.loops EXCEPT ![l].pc = "torn"]
    /\ UNCHANGED <<db, oco_vars, subscribed, wire, md_last>>

\* lines 60-91: the token is resolved, a transport is built and the specs that
\* the list holds when the for loop ends are registered on it; an exception
\* releases the lock and is caught on line 206
attempt_build(l, raises) ==
    /\ loops[l].pc = "torn"
    /\ IF raises
       THEN /\ mdc.token_provider # "none"
            /\ mdc' = [mdc EXCEPT !.connection_lock = 0]
            /\ loops' = [loops EXCEPT ![l].pc = pc_after_attempt("no_token")]
       ELSE /\ loops' = [loops EXCEPT ![l].pc = "built",
                                      ![l].connection = registrations(mdc.event_handler_specs)]
            /\ mdc' = [mdc EXCEPT !.token = resolve_token(mdc)]
    /\ UNCHANGED <<db, oco_vars, subscribed, wire, md_last>>

\* line 93: self.connection = connection; the url was made of the token that
\* line 63 stored in self.token, which only a build under the lock writes
attempt_assign(l) ==
    /\ loops[l].pc = "built"
    /\ mdc' = [mdc EXCEPT !.handlers = loops[l].connection, !.conn = "built",
                          !.hub_token = mdc.token]
    /\ loops' = [loops EXCEPT ![l].pc = "assigned", ![l].connection = {}]
    /\ UNCHANGED <<db, oco_vars, subscribed, wire, md_last>>

\* line 201: connection.start(), and the release of the lock
attempt_start(l, raises) ==
    /\ loops[l].pc = "assigned"
    /\ mdc' = [mdc EXCEPT !.connection_lock = 0,
                          !.conn = IF raises THEN "built" ELSE "connecting"]
    /\ loops' = [loops EXCEPT
                    ![l].pc = pc_after_attempt(IF raises THEN "start_raises" ELSE "started"),
                    ![l].notified = FALSE]
    /\ UNCHANGED <<db, oco_vars, subscribed, wire, md_last>>

\* lines 203-205: the wait of at most 5 s ends
loop_wait(l) ==
    /\ loops[l].pc = "wait"
    /\ loops' = IF loops[l].notified THEN [loops EXCEPT ![l] = DoneLoop]
                ELSE [loops EXCEPT ![l].pc = "top"]
    /\ UNCHANGED <<db, oco_vars, subscribed, wire, mdc, md_last>>

----------------------------------------------------------------------------
(* SpecFeed: subscribe and unsubscribe calls, and the transport opening *)

Subscribe ==
    \E ch \in Channels, contract_id \in Contracts, outcome \in SendOutcomes :
        subscribe_contract(ch, contract_id, outcome)

Unsubscribe ==
    \E ch \in Channels, contract_id \in Contracts, outcome \in SendOutcomes :
        unsubscribe_contract(ch, contract_id, outcome)

Open ==
    \E quotes \in ListsOf(subscribed["quotes"]), trades \in ListsOf(subscribed["trades"]),
       depth \in ListsOf(subscribed["depth"]) :
        on_open([mdc EXCEPT !.conn = "open"], quotes, trades, depth)

NextFeed == Subscribe \/ Unsubscribe \/ Open

SpecFeed == Init /\ [][NextFeed]_vars

----------------------------------------------------------------------------
(* SpecReconnect: the caller's thread, the transport's callback thread and    *)
(* the reconnect loop threads                                                 *)


Start == \E raises \in BOOLEAN : md_start(raises)
StartWait == md_start_wait
Stop == md_stop
ForceReconnect == force_reconnect

\* the transport being started reports that it is open
TransportOpen ==
    /\ mdc.conn = "connecting"
    /\ on_open([mdc EXCEPT !.conn = "open"], <<>>, <<>>, <<>>)

\* the current transport drops
TransportClose ==
    /\ mdc.conn \in {"connecting", "open"}
    /\ on_close([mdc EXCEPT !.conn = "closed"])

\* the close of the transport that stop() has stopped
StoppedClose ==
    /\ mdc.conn = "stopping"
    /\ on_close([mdc EXCEPT !.conn = "stopped"])

\* the close of a transport that the loop has replaced
StaleClose ==
    /\ mdc.stale_close
    /\ on_close([mdc EXCEPT !.stale_close = FALSE])

TransportError ==
    /\ mdc.conn \in {"connecting", "open"}
    /\ on_error(mdc)

\* the attempts the running loops have made, all together
RECURSIVE AttemptsMade(_)
AttemptsMade(n) == IF n = 0 THEN 0 ELSE loops[n].attempt + AttemptsMade(n - 1)

\* a loop that goes on needs an attempt within the bound
LoopTop ==
    \E l \in LoopIds :
        /\ loop_continues(mdc.stop_event, loops[l].attempt) => AttemptsMade(MaxLoops) < MaxRetries
        /\ loop_top(l)
LoopWake == \E l \in LoopIds : loop_wake(l)
LoopAttempt == \E l \in LoopIds, outcome \in AttemptOutcomes : loop_attempt(l, outcome)
LoopWait == \E l \in LoopIds : loop_wait(l)

NextReconnect ==
    \/ Start \/ StartWait \/ Stop \/ ForceReconnect
    \/ TransportOpen \/ TransportClose \/ StoppedClose \/ StaleClose \/ TransportError
    \/ LoopTop \/ LoopWake \/ LoopAttempt \/ LoopWait

SpecReconnect == Init /\ [][NextReconnect]_vars

----------------------------------------------------------------------------
(* SpecLoop: start() and stop() calls, the transport opening and closing, and *)
(* the reconnect loop threads                                                 *)

NextLoop ==
    \/ Start \/ StartWait \/ Stop
    \/ TransportOpen \/ TransportClose \/ StoppedClose \/ StaleClose
    \/ LoopTop \/ LoopWake \/ LoopAttempt \/ LoopWait

SpecLoop == Init /\ [][NextLoop]_vars

----------------------------------------------------------------------------
(* SpecCallbacks: the close and error callbacks of the transport around       *)
(* start() calls whose connection.start() returns, stop() calls and the loop  *)
(* threads                                                                    *)

StartOpens == md_start(FALSE)

NextCallbacks ==
    \/ StartOpens \/ StartWait \/ Stop
    \/ TransportOpen \/ TransportClose \/ StoppedClose \/ StaleClose \/ TransportError
    \/ LoopTop \/ LoopWake \/ LoopAttempt \/ LoopWait

SpecCallbacks == Init /\ [][NextCallbacks]_vars

----------------------------------------------------------------------------
(* SpecSession: subscribe calls, start and stop, and the open and close       *)
(* callbacks of a transport that does not drop; a reconnect loop that a       *)
(* failed start() starts has not run yet                                      *)

\* the transport being started reports that it is open: the replay follows
SessionOpen ==
    /\ mdc.conn = "connecting"
    /\ \E quotes \in ListsOf(subscribed["quotes"]), trades \in ListsOf(subscribed["trades"]),
          depth \in ListsOf(subscribed["depth"]) :
           on_open([mdc EXCEPT !.conn = "open"], quotes, trades, depth)

NextSession ==
    \/ Subscribe
    \/ Start \/ StartWait \/ Stop
    \/ SessionOpen \/ StoppedClose

SpecSession == Init /\ [][NextSession]_vars

----------------------------------------------------------------------------
(* SpecRegister: handler registrations beside a reconnect loop whose attempts *)
(* run statement by statement                                                 *)

RegisterBegin ==
    \E ch \in Channels, handler \in Handlers :
        /\ Len(mdc.event_handler_specs) < MaxHandlers
        /\ register_begin(ch, handler)
RegisterOn == register_on

AttemptTeardown == \E l \in LoopIds : attempt_teardown(l)
AttemptBuild == \E l \in LoopIds, raises \in BOOLEAN : attempt_build(l, raises)
AttemptAssign == \E l \in LoopIds : attempt_assign(l)
AttemptStart == \E l \in LoopIds, raises \in BOOLEAN : attempt_start(l, raises)

NextRegister ==
    \/ RegisterBegin \/ RegisterOn
    \/ ForceReconnect
    \/ LoopTop \/ LoopWake
    \/ AttemptTeardown \/ AttemptBuild \/ AttemptAssign \/ AttemptStart
    \/ LoopWait

SpecRegister == Init /\ [][NextRegister]_vars

----------------------------------------------------------------------------
(* SpecRebuild: subscribe and unsubscribe calls beside a reconnect loop whose *)
(* attempts run statement by statement                                        *)

NextRebuild ==
    \/ Subscribe \/ Unsubscribe
    \/ ForceReconnect
    \/ LoopTop \/ LoopWake
    \/ AttemptTeardown \/ AttemptBuild \/ AttemptAssign \/ AttemptStart
    \/ LoopWait

SpecRebuild == Init /\ [][NextRebuild]_vars

----------------------------------------------------------------------------
(* SpecBackoff: a client that is never stopped and whose transport never      *)
(* opens, under each configured backoff sequence: one reconnect loop, started *)
(* by a callback or as immediate, that goes on attempting                     *)

InitBackoff == OcoInit /\ DbInit /\ \E reconnect_backoff \in Backoffs : MdInit(reconnect_backoff)

LongLoopTop ==
    \E l \in LoopIds :
        /\ loop_continues(mdc.stop_event, loops[l].attempt) => loops[l].attempt < MaxAttempts
        /\ loop_top(l)

NextBackoff ==
    \/ Start \/ StartWait \/ ForceReconnect
    \/ TransportClose \/ StaleClose \/ TransportError
    \/ LongLoopTop \/ LoopWake \/ LoopAttempt \/ LoopWait

SpecBackoff == InitBackoff /\ [][NextBackoff]_vars

----------------------------------------------------------------------------
(* SpecToken: a client with or without a token provider, whose provider's     *)
(* token is rotated between the attempts of the reconnect loops               *)

InitToken ==
    OcoInit /\ DbInit /\ \E token_provider \in {"none"} \cup Tokens : MdInitWith(<<>>, token_provider)

\* the provider's credentials are renewed: its next call returns another token
rotate_token(token) ==
    /\ mdc.token_provider \notin {"none", token}
    /\ mdc' = [mdc EXCEPT !.token_provider = token]
    /\ UNCHANGED <<db, oco_vars, subscribed, wire, loops, md_last>>

RotateToken == \E token \in Tokens : rotate_token(token)

NextToken ==
    \/ RotateToken \/ ForceReconnect \/ TransportOpen \/ TransportClose \/ StaleClose
    \/ LoopTop \/ LoopWake \/ LoopAttempt \/ LoopWait

SpecToken == InitToken /\ [][NextToken]_vars

----------------------------------------------------------------------------
(* MarketDataDatabase: store_*, _batch_worker, _flush_batches and close,      *)
(* src/market_data_db.py                                                      *)

\* store_quote_data / store_trade_data / store_depth_data, lines 336-440: one
\* record is put on the queue
store_data(data_type) ==
    /\ db' = [db EXCEPT
                !.batch_queue = Append(@, [type |-> data_type, id |-> db.stored + 1]),
                !.unfinished_tasks = @ + 1,
                !.stored = @ + 1]
    /\ UNCHANGED <<oco_vars, md_vars>>

\* _flush_batches, lines 283-334: one transaction for the three lists; when an
\* insert or the commit raises, the transaction is rolled back and the method
\* returns
flush_batches(tables, batches, ok) ==
    IF ok THEN [t \in DataTypes |-> tables[t] \cup {batches[t][i] : i \in 1..Len(batches[t])}]
    ELSE tables

\* what a flush can do: on a closed connection it fails
FlushResults == IF db.connection = "closed" THEN {FALSE} ELSE BOOLEAN

\* _batch_worker, line 243 and lines 279-281: the test of the while; when the
\* flag is down, the final flush and the end of the thread
worker_test(ok) ==
    /\ db.worker = "test"
    /\ db' = IF db.batch_worker_running
             THEN [db EXCEPT !.worker = "get"]
             ELSE [db EXCEPT !.worker = "stopped",
                             !.tables = flush_batches(@, db.batches, ok),
                             !.batches = [t \in DataTypes |-> <<>>]]
    /\ UNCHANGED <<oco_vars, md_vars>>

\* lines 246-273: an item is taken and added to its list; the lists are flushed
\* and emptied when one has reached batch_size; task_done
worker_item(ok) ==
    /\ db.worker = "get"
    /\ db.batch_queue # <<>>
    /\ LET item == Head(db.batch_queue)
           added == [db.batches EXCEPT ![item.type] = Append(@, item)]
           full == \E t \in DataTypes : Len(added[t]) >= batch_size
       IN db' = [db EXCEPT
                   !.batch_queue = Tail(@),
                   !.unfinished_tasks = @ - 1,
                   !.batches = IF full THEN [t \in DataTypes |-> <<>>] ELSE added,
                   !.tables = IF full THEN flush_batches(@, added, ok) ELSE @,
                   !.worker = "test"]
    /\ UNCHANGED <<oco_vars, md_vars>>

\* lines 247-254: the get times out after 1 s; when batch_timeout has passed
\* since the last flush the lists are flushed and emptied
worker_timeout(elapsed, ok) ==
    /\ db.worker = "get"
    /\ db.batch_queue = <<>>
    /\ db' = IF elapsed
             THEN [db EXCEPT !.worker = "test",
                             !.tables = flush_batches(@, db.batches, ok),
                             !.batches = [t \in DataTypes |-> <<>>]]
             ELSE [db EXCEPT !.worker = "test"]
    /\ UNCHANGED <<oco_vars, md_vars>>

\* close, lines 597-598: the flag is taken down
close_begin ==
    /\ db.closer = "idle"
    /\ db' = [db EXCEPT !.batch_worker_running = FALSE, !.closer = "join"]
    /\ UNCHANGED <<oco_vars, md_vars>>

\* lines 599-600: join(timeout=10) returns when the worker has ended or the
\* timeout has passed
close_join(timed_out) ==
    /\ db.closer = "join"
    /\ db.worker = "stopped" \/ timed_out
    /\ db' = [db EXCEPT !.closer = "check"]
    /\ UNCHANGED <<oco_vars, md_vars>>

\* lines 603-605: a queue that is not empty is joined
close_check ==
    /\ db.closer = "check"
    /\ db' = [db EXCEPT !.closer = IF db.batch_queue = <<>> THEN "close" ELSE "queue_join"]
    /\ UNCHANGED <<oco_vars, md_vars>>

\* line 605: batch_queue.join() returns once every item put has been marked done
close_queue_join ==
    /\ db.closer = "queue_join"
    /\ db.unfinished_tasks = 0
    /\ db' = [db EXCEPT !.closer = "close"]
    /\ UNCHANGED <<oco_vars, md_vars>>

\* lines 608-609
close_connection ==
    /\ db.closer = "close"
    /\ db' = [db EXCEPT !.connection = "closed", !.closer = "closed"]
    /\ UNCHANGED <<oco_vars, md_vars>>

----------------------------------------------------------------------------
(* SpecStore: callers of store_*, the batch worker thread and a thread in     *)
(* close(); no record is handed over once close() has been called             *)

Store ==
    \E data_type \in DataTypes :
        /\ db.stored < MaxRecords
        /\ db.closer = "idle"
        /\ store_data(data_type)
WorkerTest == \E ok \in FlushResults : worker_test(ok)
WorkerItem == \E ok \in FlushResults : worker_item(ok)
WorkerTimeout == \E elapsed \in BOOLEAN, ok \in FlushResults : worker_timeout(elapsed, ok)
CloseBegin == close_begin
CloseJoin == \E timed_out \in BOOLEAN : close_join(timed_out)
CloseCheck == close_check
CloseQueueJoin == close_queue_join
CloseConnection == close_connection

NextStore ==
    \/ Store
    \/ WorkerTest \/ WorkerItem \/ WorkerTimeout
    \/ CloseBegin \/ CloseJoin \/ CloseCheck \/ CloseQueueJoin \/ CloseConnection

SpecStore == Init /\ [][NextStore]_vars

----------------------------------------------------------------------------
(* Vocabulary of the properties *)

StopKey(pairs, e) == Str(PyInt(pairs[e].stop_order_id))
TargetKey(pairs, e) == Str(PyInt(pairs[e].target_order_id))
LegKeys(pairs, e) == {StopKey(pairs, e), TargetKey(pairs, e)}
ActiveSets(pairs) == {e \in DOMAIN pairs : pairs[e].status = "active"}
IsFill(call) == call.op = "update" /\ call.fill # Absent /\ call.fill.v > 0
CancelFailed(call) == call.answer \in {"false", "raise"}

----------------------------------------------------------------------------
(* C1 *)

\* C1 as stated: for every bracket set, over any sequence of order-update events
\* for its legs, the sibling cancel is invoked at most once.
C1_CancelInvokedAtMostOnce ==
    \A e \in OrderIds : cancels[e].calls <= 1

\* C1, amended: with the events handled one at a time, the sibling cancel of a set
\* succeeds at most once, and once it has succeeded it is never invoked again for
\* that set; a cancel that failed is invoked again by the next fill of a leg.
C1_NoCancelAfterSuccess ==
    [][\A e \in OrderIds :
          /\ cancels'[e].ok <= 1
          /\ cancels[e].ok >= 1 => cancels'[e] = cancels[e]]_vars

\* a set whose cancel failed once, then succeeded, and a further fill of its leg
C1_Witness ==
    \E e \in DOMAIN oco_pairs :
        /\ cancels[e].calls = 2 /\ cancels[e].ok = 1
        /\ IsFill(last) /\ last.key \in LegKeys(oco_pairs, e) /\ ~last.called

----------------------------------------------------------------------------
(* C2 *)

\* C2: a bracket set leaves Active at most once and its terminal status is
\* absorbing: no later call changes the status of a set that is stop_hit or
\* target_hit while the set is in the table.
C2_TerminalAbsorbing ==
    [][\A e \in DOMAIN oco_pairs :
          /\ transitions'[e] <= 1
          /\ (oco_pairs[e].status # "active" /\ e \in DOMAIN oco_pairs')
                => oco_pairs'[e] = oco_pairs[e]]_vars

\* a completed set that saw the fill of its other leg, with another set created
\* after it completed
C2_Witness ==
    \E e \in DOMAIN oco_pairs :
        /\ oco_pairs[e].status = "stop_hit"
        /\ IsFill(last) /\ last.key = TargetKey(oco_pairs, e)
        /\ \E f \in DOMAIN oco_pairs : f > e

----------------------------------------------------------------------------
(* C3 *)

\* C3: fill events for the legs of one Active set delivered concurrently never
\* cancel the sibling twice nor transition the set twice.
C3_NoDoubleCancelOrTransition ==
    \A e \in OrderIds : cancels[e].ok <= 1 /\ transitions[e] <= 1

----------------------------------------------------------------------------
(* C4 *)

\* C4: a fill of the stop leg S of an Active set whose sibling cancel succeeds
\* issues exactly one cancel, of T, and leaves the set stop_hit with a completion
\* time; a fill of T issues exactly one cancel, of S, and leaves it target_hit.
C4_FillCompletesSet ==
    [][\A e \in ActiveSets(oco_pairs) :
          (IsFill(last') /\ last'.key \in LegKeys(oco_pairs, e) /\ last'.answer = "true")
          => /\ e \in DOMAIN oco_pairs'
             /\ oco_pairs'[e].completed
             /\ cancels'[e].calls = cancels[e].calls + 1
             /\ \A f \in OrderIds \ {e} : cancels'[f] = cancels[f]
             /\ IF last'.key = StopKey(oco_pairs, e)
                THEN /\ oco_pairs'[e].status = "stop_hit"
                     /\ last'.cancel_arg = TargetKey(oco_pairs, e)
                ELSE /\ oco_pairs'[e].status = "target_hit"
                     /\ last'.cancel_arg = StopKey(oco_pairs, e)]_vars

\* a set completed by the fill of its target leg, the stop leg cancelled
C4_Witness ==
    \E e \in DOMAIN oco_pairs :
        /\ oco_pairs[e].status = "target_hit" /\ oco_pairs[e].completed
        /\ IsFill(last) /\ last.key = TargetKey(oco_pairs, e)
        /\ last.called /\ last.cancel_arg = StopKey(oco_pairs, e)
        /\ cancels[e].calls = 1

----------------------------------------------------------------------------
(* C5 *)

\* C5: a fill event for a leg whose set is missing or no longer Active issues no
\* cancel and leaves the bracket table and the lookup index unchanged.
C5_LateFillIsNoOp ==
    [][(/\ IsFill(last')
        /\ last'.key \in DOMAIN oco_order_lookup
        /\ oco_order_lookup[last'.key].entry_id \notin ActiveSets(oco_pairs))
        => /\ ~last'.called
           /\ cancels' = cancels
           /\ oco_pairs' = oco_pairs
           /\ oco_order_lookup' = oco_order_lookup]_vars

\* the stop fill delivered again after the set became stop_hit
C5_Witness ==
    \E e \in DOMAIN oco_pairs :
        /\ oco_pairs[e].status = "stop_hit"
        /\ IsFill(last) /\ last.key = StopKey(oco_pairs, e)
        /\ ~last.called /\ cancels[e].calls = 1

----------------------------------------------------------------------------
(* C6 *)

\* C6: when the sibling cancel issued on a leg fill fails (false or an exception)
\* the set stays Active with both lookup entries; nothing but a fill event issues
\* a cancel; a later fill of the leg whose cancel succeeds completes the set.
C6_FailedCancelKeepsActive ==
    [][/\ \A e \in ActiveSets(oco_pairs) :
            (IsFill(last') /\ last'.key \in LegKeys(oco_pairs, e))
            => /\ last'.called
               /\ CancelFailed(last')
                    => /\ oco_pairs' = oco_pairs
                       /\ oco_order_lookup' = oco_order_lookup
                       /\ LegKeys(oco_pairs, e) \subseteq DOMAIN oco_order_lookup'
               /\ (cancels[e].calls >= 1 /\ last'.answer = "true")
                    => oco_pairs'[e].status \in {"stop_hit", "target_hit"}
       /\ cancels' # cancels => (IsFill(last') /\ last'.called)]_vars

\* a set completed by a repeated fill after its first cancel raised or returned false
C6_Witness ==
    \E e \in DOMAIN oco_pairs :
        /\ oco_pairs[e].status \in {"stop_hit", "target_hit"}
        /\ cancels[e].calls >= 2 /\ cancels[e].ok = 1
        /\ last.called /\ last.answer = "true"

----------------------------------------------------------------------------
(* C7 *)

\* C7: when the placement of the stop leg or of the target leg fails, the call
\* registers nothing: the bracket table and the lookup index are as before, and
\* every key of the lookup index is a leg of a set of the table.
C7_PartialPlacementRegistersNothing ==
    [][/\ (/\ last'.op = "create" /\ ~price_missing(last'.price)
           /\ last'.placed[1] = "id"
           /\ (last'.placed[2] # "id" \/ last'.placed[3] # "id"))
          => /\ oco_pairs' = oco_pairs
             /\ oco_order_lookup' = oco_order_lookup
       /\ \A k \in DOMAIN oco_order_lookup' :
             \E e \in DOMAIN oco_pairs' : k \in LegKeys(oco_pairs', e)]_vars

\* a target placement that failed while an earlier set is tracked
C7_Witness ==
    /\ last.op = "create" /\ last.placed[2] = "id" /\ last.placed[3] # "id"
    /\ Len(last.requests) = 3
    /\ DOMAIN oco_pairs # {}

----------------------------------------------------------------------------
(* C8 *)

RequestTags(call) == [i \in 1..Len(call.requests) |-> call.requests[i].tag]

\* C8: create_oco_order stops at the first failing step: no price, no order; a
\* failed entry, no leg; a failed stop, no target; each order is requested at most
\* once and no other request is sent, so the orders placed before the failure stay
\* placed; the call returns None and tracks nothing.
C8_AbortsAtFirstFailure ==
    last.op = "create" =>
        /\ RequestTags(last) =
              (IF price_missing(last.price) THEN <<>>
               ELSE IF last.placed[1] # "id" THEN <<"OCO_ENTRY">>
               ELSE IF last.placed[2] # "id" THEN <<"OCO_ENTRY", "OCO_STOP">>
               ELSE <<"OCO_ENTRY", "OCO_STOP", "OCO_TARGET">>)
        /\ (price_missing(last.price) \/ \E i \in 1..3 : last.placed[i] # "id")
              => /\ last.ret = "None"
                 /\ \A e \in DOMAIN oco_pairs : e < last.first_id
                 /\ \A k \in DOMAIN oco_order_lookup : IdOf(k) < last.first_id
                 /\ next_id = last.first_id + Len(last.requests)
                                 - (IF price_missing(last.price) THEN 0 ELSE 1)

\* a stop placement that failed: the entry is placed, the target never requested
C8_Witness ==
    /\ last.op = "create" /\ last.placed[1] = "id" /\ last.placed[2] = "raise"
    /\ Len(last.requests) = 2 /\ next_id = last.first_id + 1

----------------------------------------------------------------------------
(* C9 *)

\* C9: for a buy entry at price P the stop price is P - stop_distance, the target
\* price P + target_distance and both legs sell; for a sell entry the stop price
\* is P + stop_distance, the target price P - target_distance and both legs buy
\* (P = 100 gives 94/106 for a buy and 106/94 for a sell).
C9_LegPricesAndSides ==
    (last.op = "create" /\ Len(last.requests) = 3) =>
        LET P == last.price.v
            stop == last.requests[2]
            target == last.requests[3]
        IN /\ last.side = 0 =>
                /\ stop.price = P - 6 /\ target.price = P + 6
                /\ stop.side = 1 /\ target.side = 1
                /\ P = 100 => (stop.price = 94 /\ target.price = 106)
           /\ last.side = 1 =>
                /\ stop.price = P + 6 /\ target.price = P - 6
                /\ stop.side = 0 /\ target.side = 0
                /\ P = 100 => (stop.price = 106 /\ target.price = 94)
           /\ last.ret = "oco_data" =>
                /\ oco_pairs[last.first_id].stop_price = stop.price
                /\ oco_pairs[last.first_id].target_price = target.price

\* a sell entry at 100 registered with its stop at 106 and its target at 94
C9_Witness ==
    /\ last.op = "create" /\ last.side = 1 /\ last.ret = "oco_data"
    /\ oco_pairs[last.first_id].stop_price = 106
    /\ oco_pairs[last.first_id].target_price = 94

----------------------------------------------------------------------------
(* C10 *)

\* C10: in every state, the lookup index holds exactly two entries for each
\* Active set: stop id -> {entry, stop, target id} and target id -> {entry,
\* target, stop id}.
C10_ActiveSetHasTwoLookupEntries ==
    \A e \in ActiveSets(oco_pairs) :
        /\ {k \in DOMAIN oco_order_lookup : oco_order_lookup[k].entry_id = e}
              = LegKeys(oco_pairs, e)
        /\ Cardinality(LegKeys(oco_pairs, e)) = 2
        /\ oco_order_lookup[StopKey(oco_pairs, e)] =
              [entry_id |-> e, type |-> "stop", partner_id |-> TargetKey(oco_pairs, e)]
        /\ oco_order_lookup[TargetKey(oco_pairs, e)] =
              [entry_id |-> e, type |-> "target", partner_id |-> StopKey(oco_pairs, e)]

\* two Active sets tracked at once, after a cleanup pass
C10_Witness ==
    /\ Cardinality(ActiveSets(oco_pairs)) = 2
    /\ Cardinality(DOMAIN oco_order_lookup) = 4
    /\ last.op = "cleanup"

----------------------------------------------------------------------------
(* C11 *)

\* the sets whose entry id was registered, completed once and is no longer in the table
SweptSets(pairs) == {e \in OrderIds : cancels[e].ok > 0 /\ e \notin DOMAIN pairs}

\* C11 as stated: the lookup table holds no entry of a set that is completed;
\* the entries go when the set completes.
C11_NoEntryOfCompletedSet ==
    \A k \in DOMAIN oco_order_lookup :
        LET e == oco_order_lookup[k].entry_id
        IN e \in DOMAIN oco_pairs => oco_pairs[e].status = "active"

\* C11 amended: the entries of a set are removed with the set by the cleanup
\* pass, not when the set completes.  Every lookup entry belongs to a set that is
\* still in the table, as its stop or its target leg, and right after a cleanup
\* pass no entry of a completed set is left.
C11_EntriesPrunedByCleanup ==
    /\ \A k \in DOMAIN oco_order_lookup :
          LET e == oco_order_lookup[k].entry_id
          IN e \in DOMAIN oco_pairs /\ k \in LegKeys(oco_pairs, e)
    /\ last.op = "cleanup" => C11_NoEntryOfCompletedSet

\* a cleanup pass has just removed a completed set and its entries while the
\* entries of another set stay
C11_Witness ==
    /\ last.op = "cleanup"
    /\ SweptSets(oco_pairs) # {}
    /\ DOMAIN oco_order_lookup # {}

----------------------------------------------------------------------------
(* C12 *)

\* C12: the sweep of cleanup_orders removes every set that is not active together
\* with its two lookup entries and leaves every active set and its entries as
\* they were.
C12_SweepFrame ==
    [][last'.op = "cleanup" =>
          /\ DOMAIN oco_pairs' = ActiveSets(oco_pairs)
          /\ \A e \in ActiveSets(oco_pairs) :
                /\ oco_pairs'[e] = oco_pairs[e]
                /\ \A k \in LegKeys(oco_pairs, e) \cap DOMAIN oco_order_lookup :
                      k \in DOMAIN oco_order_lookup' /\
                      oco_order_lookup'[k] = oco_order_lookup[k]
          /\ \A e \in DOMAIN oco_pairs \ ActiveSets(oco_pairs) :
                LegKeys(oco_pairs, e) \cap DOMAIN oco_order_lookup' = {}
          /\ DOMAIN oco_order_lookup' \subseteq DOMAIN oco_order_lookup]_vars

\* a cleanup pass that removed a completed set and kept an active one with both
\* of its entries
C12_Witness ==
    /\ last.op = "cleanup"
    /\ SweptSets(oco_pairs) # {}
    /\ \E e \in ActiveSets(oco_pairs) : LegKeys(oco_pairs, e) \subseteq DOMAIN oco_order_lookup

----------------------------------------------------------------------------
(* C13 *)

\* C13 as stated: a set leaves the table only in a cleanup pass and only when it
\* is completed; no operation removes an active set.
C13_RemovedOnlyByCleanup ==
    [][\A e \in DOMAIN oco_pairs :
          e \notin DOMAIN oco_pairs' =>
              last'.op = "cleanup" /\ oco_pairs[e].status # "active"]_vars

\* C13 amended: a set leaves the table only in a cleanup pass, which removes
\* completed sets only, or in reset_oco_state, which empties both tables, active
\* sets included; no other operation removes a set, so a completed set stays in
\* the table until a cleanup pass or a reset runs.
C13_RemovedByCleanupOrReset ==
    [][\A e \in DOMAIN oco_pairs :
          e \notin DOMAIN oco_pairs' =>
              \/ last'.op = "cleanup" /\ oco_pairs[e].status # "active"
              \/ last'.op = "reset" /\ oco_pairs' = <<>> /\ oco_order_lookup' = <<>>]_vars

\* a reset has removed a set whose sibling cancel had failed, so it was still active
C13_Witness ==
    /\ last.op = "reset"
    /\ oco_pairs = <<>>
    /\ \E e \in OrderIds : cancels[e].calls > 0 /\ cancels[e].ok = 0

----------------------------------------------------------------------------
(* C14 *)

\* C14: on_order_update never raises, whatever the payload: an order object
\* without id or without fillVolume, a null fillVolume, an empty list, a list
\* whose element is not an object.
C14_UpdateNeverRaises == last.op = "update" => ~last.raised

----------------------------------------------------------------------------
(* C15 *)

\* C15: with fills, create_oco_order and cleanup_orders running on different
\* threads at once no set is lost.  A set that create_oco_order registers is in
\* the table, a set leaves the table only when the cleanup pass deletes it as
\* completed, a lookup entry goes only when the cleanup pass pops it for a
\* completed set, and every active set has its two lookup entries.
C15_NoSetLost ==
    [][/\ (pc[Caller] = "target" /\ next_id' = next_id + 1) =>
              loc[Caller].entry_order_id \in DOMAIN oco_pairs'
       /\ \A e \in DOMAIN oco_pairs :
              e \notin DOMAIN oco_pairs' =>
                  /\ oco_pairs[e].status # "active"
                  /\ pc[Cleaner] = "delete" /\ e \in loc[Cleaner].completed
       /\ \A k \in DOMAIN oco_order_lookup :
              k \notin DOMAIN oco_order_lookup' =>
                  /\ pc[Cleaner] = "scan"
                  /\ oco_pairs[oco_order_lookup[k].entry_id].status # "active"
       /\ \A e \in ActiveSets(oco_pairs') :
              LegKeys(oco_pairs', e) \subseteq DOMAIN oco_order_lookup']_vars

\* the cleanup pass is between its two loops with a completed set to delete
\* while a dispatch thread waits for the cancel of another, active set
C15_Witness ==
    /\ pc[Cleaner] = "delete"
    /\ loc[Cleaner].completed # {}
    /\ \E t \in Dispatch :
          /\ pc[t] = "cancel"
          /\ loc[t].oco_info.entry_id \in ActiveSets(oco_pairs)
          /\ LegKeys(oco_pairs, loc[t].oco_info.entry_id) \subseteq DOMAIN oco_order_lookup

----------------------------------------------------------------------------
(* C16 *)

ChannelRank(method) ==
    CASE method = "SubscribeContractQuotes" -> 1
      [] method = "SubscribeContractTrades" -> 2
      [] OTHER -> 3

\* C16: whatever subscribe and unsubscribe calls built the subscription sets,
\* each _on_open sends exactly one subscribe command for every key of every set,
\* none for a key that is in no set, and sends all quotes before all trades
\* before all depth.
C16_ReplayIsSubscriptionSet ==
    md_last.op = "open" =>
        /\ \A ch \in Channels : \A k \in subscribed[ch] :
              Cardinality({i \in 1..Len(wire) :
                              wire[i] = [method |-> subscribe_method(ch), arg |-> k]}) = 1
        /\ \A i \in 1..Len(wire) :
              \E ch \in Channels : /\ wire[i].method = subscribe_method(ch)
                                   /\ wire[i].arg \in subscribed[ch]
        /\ \A i, j \in 1..Len(wire) :
              i < j => ChannelRank(wire[i].method) <= ChannelRank(wire[j].method)

\* an open after calls that left two quote keys, one trade key and one depth key
C16_Witness ==
    /\ md_last.op = "open"
    /\ subscribed["quotes"] = Contracts
    /\ subscribed["trades"] = {"c1"}
    /\ subscribed["depth"] = {"c2"}
    /\ Len(wire) = 4

----------------------------------------------------------------------------
(* C17 *)

\* the loop threads that still have work to do: started, not finished, and not
\* merely about to return from a wait in which the open signal came
LiveLoops ==
    {l \in LoopIds : /\ loops[l].pc \in {"top", "slept", "attempt", "wait"}
                     /\ ~(loops[l].pc = "wait" /\ loops[l].notified)}

\* C17: at most one reconnect loop is live at any time, under every
\* interleaving of the callbacks, stop and the loop.
C17_AtMostOneLoopLive == Cardinality(LiveLoops) <= 1

----------------------------------------------------------------------------
(* C18 *)

Running(l) == loops[l].pc \in {"top", "slept", "attempt", "wait"}

NonDecreasing(q) == \A i \in 1..Len(q) : \A j \in 1..Len(q) : i <= j => q[i] <= q[j]

Capped(q, i) == q[IF i < Len(q) THEN i ELSE Len(q)]

\* C18 as stated: in one loop the delay before the i-th attempt is the i-th
\* element of the configured sequence, the last one once the sequence is
\* exhausted, and the delays never decrease.
C18_DelaysFollowConfigured ==
    \A l \in LoopIds : Running(l) =>
        /\ \A i \in 1..Len(loops[l].delays) :
              loops[l].delays[i] = Capped(mdc.reconnect_backoff, i)
        /\ NonDecreasing(loops[l].delays)

\* C18 amended: the delays of a loop follow the loop's own sequence, which is the
\* configured sequence, preceded by one zero delay when the loop was started as
\* immediate, and stay at the last configured value once it is exhausted; they
\* never decrease when the configured sequence does not.
C18_DelaysFollowLoopBackoff ==
    \A l \in LoopIds : Running(l) =>
        LET own == IF loops[l].immediate THEN <<0>> \o mdc.reconnect_backoff
                   ELSE mdc.reconnect_backoff
        IN /\ \A i \in 1..Len(loops[l].delays) : loops[l].delays[i] = Capped(own, i)
           /\ NonDecreasing(mdc.reconnect_backoff) => NonDecreasing(loops[l].delays)

\* a loop under the default sequence that has slept more often than the
\* sequence is long
C18_Witness ==
    \E l \in LoopIds :
        /\ Running(l)
        /\ mdc.reconnect_backoff = DEFAULT_BACKOFF
        /\ ~loops[l].immediate
        /\ Len(loops[l].delays) > Len(DEFAULT_BACKOFF)

----------------------------------------------------------------------------
(* C19 *)

LoopStep(l) ==
    loop_top(l) \/ loop_wake(l) \/ loop_wait(l) \/ \E o \in AttemptOutcomes : loop_attempt(l, o)

----------------------------------------------------------------------------
(* C20 *)

\* C20: a close or error callback that finds the stop flag set starts no
\* reconnect loop; one that finds it clear starts a loop or finds the loop of the
\* handle running and starts none.
C20_ReconnectUnlessStopping ==
    md_last.op \in {"close", "error"} =>
        /\ md_last.stop_seen => Spawned(loops) = md_last.spawned_before
        /\ ~md_last.stop_seen =>
              \/ Spawned(loops) = md_last.spawned_before + 1
              \/ md_last.found_running /\ Spawned(loops) = md_last.spawned_before

\* the close of the transport that stop() has stopped: no loop is started
C20_Witness ==
    /\ md_last.op = "close"
    /\ md_last.stop_seen
    /\ mdc.conn = "stopped"
    /\ Spawned(loops) = 0

----------------------------------------------------------------------------
(* C21 *)

\* the loop thread a call started, given the number of threads before it
StartedLoop(call) == call.spawned_before + 1

\* C21 as stated: start() returns a boolean and its wait always ends; when
\* connection.start() raises, start() returns false and has started a reconnect
\* loop whose first attempt comes with zero delay; when it does not raise,
\* start() returns true exactly when the wait saw the open signal.
C21_StartSchedulesImmediateLoop ==
    /\ mdc.caller \in {"start_wait", "start_notified"} => ENABLED md_start_wait
    /\ md_last.op = "start" =>
          /\ md_last.transport = "raises" =>
                /\ md_last.ret = "False"
                /\ Spawned(loops) = md_last.spawned_before + 1
                /\ loops[StartedLoop(md_last)].delays # <<>> =>
                      loops[StartedLoop(md_last)].delays[1] = 0
          /\ (md_last.transport = "started" /\ md_last.ret # "-") =>
                md_last.ret = (IF md_last.signal THEN "True" ELSE "False")

\* C21 amended: start() returns a boolean and its wait always ends; when
\* connection.start() raises, start() returns false, and it has started an
\* immediate reconnect loop (first delay zero) unless the thread of the handle
\* was still alive, in which case it has started none and that loop goes on with
\* its own delays; when connection.start() does not raise, start() returns true
\* exactly when the wait saw the open signal.
C21_StartSchedulesUnlessLoopAlive ==
    /\ mdc.caller \in {"start_wait", "start_notified"} => ENABLED md_start_wait
    /\ md_last.op = "start" =>
          /\ md_last.transport = "raises" =>
                /\ md_last.ret = "False"
                /\ IF md_last.found_running
                   THEN Spawned(loops) = md_last.spawned_before
                   ELSE /\ Spawned(loops) = md_last.spawned_before + 1
                        /\ loops[StartedLoop(md_last)].pc # "done" =>
                              loops[StartedLoop(md_last)].immediate
                        /\ loops[StartedLoop(md_last)].delays # <<>> =>
                              loops[StartedLoop(md_last)].delays[1] = 0
          /\ (md_last.transport = "started" /\ md_last.ret # "-") =>
                md_last.ret = (IF md_last.signal THEN "True" ELSE "False")

\* a start() whose connection.start() raised while the loop of the handle, started
\* by a callback, was asleep before its first attempt
C21_Witness ==
    /\ md_last.op = "start"
    /\ md_last.transport = "raises"
    /\ md_last.found_running
    /\ md_last.ret = "False"
    /\ \E l \in LoopIds : loops[l].pc = "slept" /\ ~loops[l].immediate

----------------------------------------------------------------------------
(* C22 *)

\* C22: when stop() returns, an unsubscribe command was handed to _send for every
\* key of every subscription set.
C22_StopUnsubscribesAll ==
    md_last.op = "stop" =>
        \A ch \in Channels : \A k \in subscribed[ch] :
            \E i \in 1..Len(wire) : wire[i] = [method |-> unsubscribe_method(ch), arg |-> k]

----------------------------------------------------------------------------
(* C23 *)

----------------------------------------------------------------------------
(* C25 *)

ChannelOf(method) ==
    CHOOSE ch \in Channels : method \in {subscribe_method(ch), unsubscribe_method(ch)}

\* C25: a subscribe call hands the subscribe command of its channel to _send and
\* returns true exactly when connection.send returned; afterwards the key is in
\* the set exactly when it was there before or the send succeeded; a call for a
\* key that is in the set already returns true and leaves the set as it was.
C25_RepeatedSubscribeSucceeds ==
    md_last.op = "subscribe" =>
        LET ch == ChannelOf(wire[1].method)
        IN /\ Len(wire) = 1
           /\ wire[1].method = subscribe_method(ch)
           /\ md_last.ret = "True" <=> md_last.transport = "sent"
           /\ wire[1].arg \in subscribed[ch] <=>
                 (md_last.key_before \/ md_last.transport = "sent")
           /\ md_last.key_before => md_last.ret = "True"

----------------------------------------------------------------------------
(* C26 *)

\* C26: after an unsubscribe call the key is in its channel's set no more,
\* whatever connection.send did.
C26_UnsubscribeAlwaysRemoves ==
    md_last.op = "unsubscribe" =>
        wire[1].arg \notin subscribed[ChannelOf(wire[1].method)]

----------------------------------------------------------------------------
(* C28 *)

\* C28: a subscribe or unsubscribe call, which returns what _send returns, raises
\* nothing; it returns true when connection.send returned and false when
\* connection.send raised, for a transport that is not running as for any other
\* error.
C28_SendNeverRaises ==
    md_last.op \in {"subscribe", "unsubscribe"} =>
        /\ ~md_last.raised
        /\ md_last.ret = (IF md_last.transport = "sent" THEN "True" ELSE "False")

\* a subscribe call on a transport that is not running
C28_Witness ==
    /\ md_last.op = "subscribe"
    /\ md_last.transport = "not_running"
    /\ md_last.ret = "False"
    /\ wire = <<[method |-> "SubscribeContractTrades", arg |-> "c2"]>>

----------------------------------------------------------------------------
(* C29 *)

\* C29: an attempt whose token resolution raises or returns no token leaves its
\* loop running, back at the test of the while with its attempt count kept; a
\* loop there always has a next step, and with no stop requested that step is the
\* sleep of the next delay of the loop's sequence.
C29_TokenFailureFailsOneAttempt ==
    /\ [](\A l \in LoopIds : (loops[l].pc = "top" /\ loops[l].attempt > 0) => ENABLED loop_top(l))
    /\ [][\A l \in LoopIds :
            /\ (loop_attempt(l, "token_raises") \/ loop_attempt(l, "no_token")) =>
                  /\ loops'[l].pc = "top"
                  /\ loops'[l].attempt = loops[l].attempt
                  /\ loops'[l].delays = loops[l].delays
            /\ (loop_top(l) /\ ~mdc.stop_event) =>
                  /\ loops'[l].pc = "slept"
                  /\ loops'[l].delays =
                        Append(loops[l].delays,
                               Capped(IF loops[l].immediate THEN <<0>> \o mdc.reconnect_backoff
                                      ELSE mdc.reconnect_backoff,
                                      loops[l].attempt + 1))]_vars

\* a loop asleep before its second attempt while the transport is the one the
\* first attempt tore down and could not rebuild
C29_Witness ==
    \E l \in LoopIds :
        /\ loops[l].pc = "slept"
        /\ loops[l].attempt = 1
        /\ Len(loops[l].delays) = 2
        /\ mdc.conn = "stopped"

----------------------------------------------------------------------------
(* C24 *)

\* C24: whenever no registration and no rebuild is under way, every registered
\* handler is registered on the transport in use under each of its event names.
C24_HandlersOnTransportInUse ==
    (mdc.registrar.pc = "idle" /\ ~Rebuilding(loops)) =>
        registrations(mdc.event_handler_specs) \subseteq mdc.handlers

----------------------------------------------------------------------------
(* C27 *)

\* C27: a reconnect loop between the teardown of the transport and the start of
\* the new one holds the connection lock, and no subscribe or unsubscribe call
\* hands a command to the transport while a loop is there.
C27_NoSendDuringRebuild ==
    /\ \A l \in LoopIds :
          loops[l].pc \in {"torn", "built", "assigned"} => mdc.connection_lock = l
    /\ md_last.op \in {"subscribe", "unsubscribe"} => ~md_last.rebuilding

----------------------------------------------------------------------------
(* C30 *)

\* a record that is in the queue or in one of the worker's lists
OnItsWay(id) ==
    \/ \E i \in 1..Len(db.batch_queue) : db.batch_queue[i].id = id
    \/ \E t \in DataTypes : \E i \in 1..Len(db.batches[t]) : db.batches[t][i].id = id

\* C30: every record put on the queue is a row of the table of its type, or is
\* in the queue or in a list of a batch worker that is still running and so will
\* flush it.
C30_AcceptedRecordsAreWritten ==
    \A id \in 1..db.stored :
        \/ \E t \in DataTypes : [type |-> t, id |-> id] \in db.tables[t]
        \/ OnItsWay(id) /\ db.worker # "stopped"

----------------------------------------------------------------------------
(* C31 *)

\* C31: the transport the constructor builds and the transport every reconnect
\* attempt builds carry the token that the token-resolution function returns at
\* that build (the provider's current token, or the stored token without a
\* provider), and self.token is that token; an attempt whose token resolution
\* fails builds nothing and leaves both as they were.
C31_TokenResolvedAtEveryBuild ==
    /\ [](mdc.hub_token = mdc.token)
    /\ [](mdc.token_provider = "none" => mdc.hub_token = InitialToken)
    /\ [][\A l \in LoopIds :
            /\ (loop_attempt(l, "started") \/ loop_attempt(l, "start_raises")) =>
                  /\ mdc'.hub_token = (IF mdc.token_provider # "none"
                                       THEN mdc.token_provider ELSE mdc.token)
                  /\ mdc'.token = mdc'.hub_token
            /\ (loop_attempt(l, "token_raises") \/ loop_attempt(l, "no_token")) =>
                  /\ mdc'.hub_token = mdc.hub_token
                  /\ mdc'.token = mdc.token]_vars

\* a transport rebuilt with the token the provider was rotated to after the
\* construction
C31_Witness ==
    /\ mdc.hub_token = "t2"
    /\ mdc.token_provider = "t2"
    /\ mdc.conn = "connecting"
    /\ \E l \in LoopIds : loops[l].pc = "wait" /\ loops[l].attempt > 0

----------------------------------------------------------------------------
(* C32 *)

\* C32: an update with a positive fill whose order id has no lookup entry and
\* whose custom tag holds a bracket marker takes the tag fallback and returns
\* normally; the fallback is taken only for an order id without a lookup entry.
C32_TagFallbackReturns ==
    (last.op = "update" /\ last.branch = "tag") =>
        /\ last.fill.v > 0
        /\ last.key \notin DOMAIN oco_order_lookup
        /\ ~last.raised

----------------------------------------------------------------------------
(* C33 *)

\* C33 as stated: an update issues the sibling cancel exactly when its fill size
\* is positive and its order id is in the lookup index, whatever its status
\* code; an update that issues no cancel changes no bracket state.
C33_CancelOnFillOfTrackedLeg ==
    [][last'.op = "update" =>
          /\ last'.called <=> (last'.fill.v > 0 /\ last'.key \in DOMAIN oco_order_lookup)
          /\ last'.called =>
                last'.cancel_arg = oco_order_lookup[last'.key].partner_id
          /\ ~last'.called =>
                UNCHANGED <<oco_pairs, oco_order_lookup, cancels, transitions>>]_vars

\* C33 amended: an update issues the sibling cancel exactly when its fill size is
\* positive, its order id is in the lookup index and the set of that entry is
\* still Active, whatever its status code; an update that issues no cancel
\* changes no bracket state.
C33_CancelOnFillOfActiveSet ==
    [][last'.op = "update" =>
          /\ last'.called <=>
                /\ last'.fill.v > 0
                /\ last'.key \in DOMAIN oco_order_lookup
                /\ oco_order_lookup[last'.key].entry_id \in ActiveSets(oco_pairs)
          /\ last'.called =>
                last'.cancel_arg = oco_order_lookup[last'.key].partner_id
          /\ ~last'.called =>
                UNCHANGED <<oco_pairs, oco_order_lookup, cancels, transitions>>]_vars

\* a set completed by the second update delivered, which reports its stop leg
\* PartiallyFilled with one contract filled
C33_Witness ==
    \E e \in DOMAIN oco_pairs :
        /\ oco_pairs[e].status = "stop_hit"
        /\ last.op = "update" /\ last.key = StopKey(oco_pairs, e)
        /\ last.status = PyInt(4) /\ last.fill = PyInt(1)
        /\ last.called /\ cancels[e].calls = 1
        /\ order_events = 2

----------------------------------------------------------------------------
(* C34 *)

\* the ids of the tagged orders among the first n open orders
RECURSIVE TaggedIds(_, _)
TaggedIds(open_orders, n) ==
    IF n = 0 THEN <<>>
    ELSE TaggedIds(open_orders, n - 1) \o
         (IF open_orders[n].customTag \in {"OCO_ENTRY", "OCO_STOP", "OCO_TARGET"}
          THEN <<open_orders[n].orderId>> ELSE <<>>)

\* the open orders the loop reads before one whose tag is null
Readable(open_orders) ==
    IF \E i \in 1..Len(open_orders) : open_orders[i].customTag = NullTag
    THEN (CHOOSE i \in 1..Len(open_orders) :
             /\ open_orders[i].customTag = NullTag
             /\ \A j \in 1..(i - 1) : open_orders[j].customTag # NullTag) - 1
    ELSE Len(open_orders)

\* C34: cleanup_orders calls cancel_order for every tagged open order it reads,
\* in the order reported and whatever the cancels before it did, and the sweep of
\* the completed sets has run whether the query or any cancel failed or not.
C34_CancelsAreIndependent ==
    last.op = "cleanup" =>
        /\ last.stage = "searched" =>
              last.requests = TaggedIds(last.placed, Readable(last.placed))
        /\ last.stage = "search_raised" => last.requests = <<>>
        /\ \A e \in DOMAIN oco_pairs : oco_pairs[e].status = "active"
        /\ \A k \in DOMAIN oco_order_lookup : oco_order_lookup[k].entry_id \in DOMAIN oco_pairs

\* a cleanup with two tagged open orders whose first cancel raised: the second
\* was still requested
C34_Witness ==
    /\ last.op = "cleanup"
    /\ Len(last.placed) = 2
    /\ last.placed[1].customTag = "OCO_STOP" /\ last.placed[1].answer = "raises"
    /\ last.placed[2].customTag = "OCO_STOP"
    /\ last.requests = <<2, 3>>

----------------------------------------------------------------------------
(* C39 *)

SetStatuses == {"active", "stop_hit", "target_hit"}

\* C39: a set's status is always one of active, stop_hit, target_hit, and
\* cleanup_orders changes no status: every set it leaves in the table keeps its
\* status, and every Active set stays in the table with both of its lookup
\* entries, also when the cancels of its two legs were just requested.
C39_CleanupKeepsStatus ==
    /\ [](\A e \in DOMAIN oco_pairs : oco_pairs[e].status \in SetStatuses)
    /\ [][last'.op = "cleanup" =>
            /\ \A e \in DOMAIN oco_pairs' :
                   e \in DOMAIN oco_pairs /\ oco_pairs'[e].status = oco_pairs[e].status
            /\ \A e \in ActiveSets(oco_pairs) :
                   /\ e \in ActiveSets(oco_pairs')
                   /\ \A k \in LegKeys(oco_pairs, e) :
                          /\ k \in DOMAIN oco_order_lookup /\ k \in DOMAIN oco_order_lookup'
                          /\ oco_order_lookup'[k] = oco_order_lookup[k]]_vars

\* a cleanup has just requested the cancels of both legs of a set, and the set
\* is Active with both lookup entries
C39_Witness ==
    /\ last.op = "cleanup"
    /\ \E e \in ActiveSets(oco_pairs) :
          /\ last.requests = <<oco_pairs[e].stop_order_id, oco_pairs[e].target_order_id>>
          /\ LegKeys(oco_pairs, e) \subseteq DOMAIN oco_order_lookup

----------------------------------------------------------------------------
(* C35 *)

\* C35: the wrapper of an order update makes no difference: every step of
\* on_order_update is the step of one order object and one cancel answer under
\* each of the four wrappers, so the order id, fill size and status recorded,
\* the cancel calls and the new bracket state are the same for all of them.
C35_WrapperMakesNoDifference ==
    [][last'.op = "update" /\ order_events' # order_events =>
          \E customTag \in {"", "OCO_STOP"} :
              \A shape \in Shapes :
                  on_order_update(Payload(shape, [id |-> last'.key.of,
                                                  fillVolume |-> last'.fill,
                                                  status |-> last'.status,
                                                  customTag |-> customTag]),
                                  last'.answer)]_vars

\* the fill of a tracked stop leg has been handled: the sibling's cancel was
\* called and the set has left the Active state
C35_Witness ==
    /\ last.op = "update" /\ last.called /\ last.fill = PyInt(1)
    /\ \E e \in DOMAIN oco_pairs :
          /\ oco_pairs[e].status = "stop_hit"
          /\ last.key = StopKey(oco_pairs, e)
          /\ cancels[e].calls = 1

----------------------------------------------------------------------------
(* C36 *)

\* C36: between a stop() that has returned and the next start(), no reconnect
\* loop makes an attempt: none tears the transport down, rebuilds or starts it.
C36_NoAttemptAfterStop ==
    [][mdc.stop_event /\ mdc'.stop_event =>
          \A l \in LoopIds : ~(loops[l].pc = "attempt" /\ loops'[l].pc # "attempt")]_vars

----------------------------------------------------------------------------
(* C37 *)

\* no loop makes an attempt while the current transport is open
NoAttemptWhileOpen ==
    [][mdc.conn = "open" =>
          \A l \in LoopIds : ~(loops[l].pc = "attempt" /\ loops'[l].pc # "attempt")]_vars

\* the close of a replaced transport leaves the connected flag of an open
\* transport set
StaleCloseKeepsFlag ==
    [][(mdc.conn = "open" /\ mdc.is_connected /\ mdc.stale_close /\ ~mdc'.stale_close
            /\ mdc'.conn = "open") => mdc'.is_connected]_vars

\* C37: a transport that has opened and has not closed is left alone by the
\* reconnect machinery: no reconnect loop tears it down and rebuilds it, and
\* the late close of a replaced transport does not clear the connected flag.
C37_OpenTransportLeftAlone == NoAttemptWhileOpen /\ StaleCloseKeepsFlag

----------------------------------------------------------------------------
(* C38 *)

\* C38: a fill of the stop leg that is delivered while create_oco_order has
\* placed the leg and not yet registered the set is not lost: the handler keeps
\* something of it (a pending cancel, an entry of a table, a status) that lets
\* the sibling be cancelled once the set is registered.
C38_EarlyFillIsKept ==
    [][\A t \in Dispatch, shape \in EventShapes, order \in Orders :
          (/\ pc[Caller] = "target"
           /\ order.id.v = loc[Caller].stop_order_id
           /\ order.fillVolume = PyInt(1)
           /\ update_begin(t, Payload(shape, order)))
          => <<oco_pairs, oco_order_lookup, cancels, transitions, pc, loc, last>>'
                 # <<oco_pairs, oco_order_lookup, cancels, transitions, pc, loc, last>>]_vars

----------------------------------------------------------------------------
(* C40 *)

\* C40: close() comes to its end: once the batch worker has made its final
\* flush and ended, a close() that waits in batch_queue.join() can return, for
\* every item put on the queue has been marked done.
C40_CloseReturns ==
    (db.closer = "queue_join" /\ db.worker = "stopped") => db.unfinished_tasks = 0

====
